---- MODULE Spec2Model ----
(***************************************************************************)
(* A model of the poe2openai gateway's event translation code.             *)
(*                                                                         *)
(*   SpecChat   src/handlers/chat.rs: handle_stream_response,              *)
(*              handle_non_stream_response, handle_replace_response,       *)
(*              handle_tool_calls_in_stream, create_stream_chunk.          *)
(*   SpecEvert  src/evert.rs: the EventContext, the six event handlers     *)
(*              and the ThinkingProcessor.                                 *)
(*                                                                         *)
(* Text is a sequence of one-character strings.  The token "T" stands for  *)
(* the literal "Thinking..." (which the code only ever searches for and    *)
(* strips as a whole), "u" for the URL of a file.                          *)
(***************************************************************************)
EXTENDS Integers, Sequences, FiniteSets, TLC

VARIABLES
    \* ---- the request and its upstream (chat.rs)
    mode,               \* "stream" | "nonstream"  (chat_request.stream)
    include_usage,      \* stream_options.include_usage
    prompt_tokens,      \* count_message_tokens(&messages)
    upstream,           \* the items event_stream.next() has yielded so far
    upEnded,            \* event_stream.next() has returned None
    \* ---- locals of handle_stream_response / handle_non_stream_response
    pc,
    peeked,             \* iterations done of `for _ in 0..3`
    first_events,       \* first_two_events / first_three_events
    has_done_event,
    has_tool_calls,
    initial_tool_calls,
    accumulated_tool_calls, \* non-stream accumulator, tool-stream unfold state
    file_refs,          \* file_refs / accumulated_file_refs / response_file_refs
    text_acc,           \* full_content / accumulated_text / response_content / last_content
    first_text_processed,
    done_received,
    completion_tokens_counter,
    \* ---- what the client gets
    result,             \* "pending" | "stream" | "json" | "error"
    out,                \* the SSE frames written, in order
    response,           \* the non-stream JSON body
    \* ---- evert.rs
    ctx,                \* the EventContext
    doc,                \* the text the upstream is sending in Text events
    docPos,             \* how much of it has been sent
    fed,                \* the events EventHandlerManager::handle has been given
    directives,         \* what it returned for each
    parsed,             \* what process_text_chunk returned, call by call
    \* ---- cache.rs: the urls and base64 trees of the sled database
    clock,              \* SystemTime::now(), in seconds since UNIX_EPOCH
    url_cache_ttl,      \* URL_CACHE_TTL_SECONDS
    url_cache_size_mb,  \* URL_CACHE_SIZE_MB
    sled,               \* the trees: key -> stored value ("" when absent)
    cache_calls,        \* how many cache calls were made
    lastOp,             \* the last cache call and what it returned
    \* ---- chat.rs, poe_client.rs: chat_completions up to stream_request
    chat_request,       \* the parsed ChatCompletionRequest: model and messages
    config,             \* the Config of models.yaml: enable and models
    req_pc,             \* "idle", "received", "resolved", "sent" or "rejected"
    original_model,     \* the model id given to PoeClientWrapper::new
    display_model,      \* the model id written into the response
    chat_request_obj,   \* the ChatRequest given to stream_request
    \* ---- chat.rs, utils.rs: an upstream Error event answered over HTTP
    error_event,        \* ChatResponseData::Error { text, allow_retry }
    http_response,      \* the status and the OpenAIError rendered for it
    \* ---- handlers/limit.rs: the global rate limiter
    instant,            \* Instant::now(), in milliseconds
    rate_limit_ms,      \* RATE_LIMIT_MS
    last_call,          \* the Instant inside GLOBAL_RATE_LIMITER's mutex
    lock_holder,        \* the request holding the mutex, 0 when it is free
    gate,               \* per request: where it is in rate_limit_middleware
    \* ---- cache.rs, handlers/admin.rs: the cached configuration
    models_yaml,        \* the Config in the file models.yaml
    sled_models_yaml,   \* the bytes under the key "models.yaml" of sled
    admin_pc,           \* where the admin's save_config is
    reader,             \* per call of get_cached_config: where it is
    \* ---- utils.rs: process_message_images
    img_pc,             \* where process_message_images is
    items,              \* the image_url items of the messages
    img_idx,            \* the position of the running loop
    to_upload,          \* urls_to_upload, then data_to_upload: item positions
    upload_calls,       \* how often upload_files_batch was called
    img_faults,         \* what failed during the call
    img_result,         \* "pending", "Ok" or "Err"
    temp_files,         \* the Vec temp_files: the paths written so far
    temp_dir,           \* the files the call created, and the removals
    \* ---- poe_client.rs: the query of create_chat_request
    assembly,           \* the arguments: model, messages, request, and the config
    query,              \* the ChatMessages of the ChatRequest
    query_pc,           \* "idle", "called" or "built"
    \* ---- handlers/models.rs: get_models with YAML enabled
    models_config,      \* the Config: models and custom_models
    api_models_cache,   \* API_MODELS_CACHE: Option<Arc<Vec<ModelInfo>>>
    write_guard,        \* the request holding the RwLock's write guard, 0 if none
    list_request,       \* per request of the model list: where it is, its locals
    fetches             \* the calls of get_models_from_api under the write guard

chatVars == <<mode, include_usage, prompt_tokens, upstream, upEnded, pc, peeked,
              first_events, has_done_event, has_tool_calls, initial_tool_calls,
              accumulated_tool_calls, file_refs, text_acc, first_text_processed,
              done_received, completion_tokens_counter, result, out, response>>

evertVars == <<ctx, doc, docPos, fed, directives, parsed>>

cacheVars == <<clock, url_cache_ttl, url_cache_size_mb, sled, cache_calls, lastOp>>

requestVars ==
    <<chat_request, config, req_pc, original_model, display_model, chat_request_obj>>

errorVars == <<error_event, http_response>>

\* the variables of the components added after chat.rs and evert.rs
gateVars == <<instant, rate_limit_ms, last_call, lock_holder, gate>>

\* the variables of the components added after chat.rs and evert.rs
configVars == <<models_yaml, sled_models_yaml, admin_pc, reader>>

\* the variables of the components added after chat.rs and evert.rs
imagesVars ==
    <<img_pc, items, img_idx, to_upload, upload_calls, img_faults, img_result,
      temp_files, temp_dir>>

queryVars == <<assembly, query, query_pc>>

modelsVars == <<models_config, api_models_cache, write_guard, list_request, fetches>>

\* the variables of the components added after chat.rs and evert.rs
restVars ==
    <<cacheVars, requestVars, errorVars, gateVars, configVars, imagesVars, queryVars,
      modelsVars>>

vars == <<chatVars, evertVars, restVars>>

-----------------------------------------------------------------------------
(* Bounds *)

\* The number of items the upstream yields in one request.
MaxEvents == 5

\* The number of events given to the EventHandlerManager in one request.
MaxEvertEvents == 4

-----------------------------------------------------------------------------
(* Strings *)

NL == "\n"

Last(s) == s[Len(s)]

\* Option<T>
Some(x) == [some |-> TRUE, v |-> x]
None == [some |-> FALSE, v |-> <<>>]

\* p occurs in s at index i (1-based)
MatchAt(s, p, i) ==
    /\ i >= 1
    /\ i + Len(p) - 1 <= Len(s)
    /\ \A k \in 1..Len(p) : s[i + k - 1] = p[k]

\* str::find: the index of the first occurrence of p in s, 0 when there is none
Find(s, p) ==
    LET hits == {i \in 1..(Len(s) + 1) : MatchAt(s, p, i)}
    IN IF hits = {} THEN 0 ELSE CHOOSE i \in hits : \A j \in hits : i <= j

\* str::contains
Contains(s, p) == Find(s, p) # 0

\* str::replace: every non-overlapping occurrence of p, left to right
RECURSIVE StrReplace(_, _, _)
StrReplace(s, p, r) ==
    LET i == Find(s, p)
    IN IF i = 0 \/ Len(p) = 0
       THEN s
       ELSE SubSeq(s, 1, i - 1) \o r
            \o StrReplace(SubSeq(s, i + Len(p), Len(s)), p, r)

\* format!("[{}]", ref_id)
ImgMarker(ref) == <<"[", ref, "]">>

\* format!("({})", file_data.url); every file's URL is the token "u" + its ref
Replacement(ref) == <<"(", "u", ref, ")">>

\* for (ref_id, file_data) in &file_refs { content = content.replace(marker, replacement) }
RECURSIVE ReplaceRefs(_, _)
ReplaceRefs(s, refs) ==
    IF refs = {}
    THEN s
    ELSE LET r == CHOOSE x \in refs : TRUE
         IN ReplaceRefs(StrReplace(s, ImgMarker(r), Replacement(r)), refs \ {r})

\* count_completion_tokens: the tokenizer's count, here one token per character
count_completion_tokens(s) == Len(s)

-----------------------------------------------------------------------------
(* Upstream events (poe_api_process::ChatResponse) *)

TextEv(t)     == [type |-> "Text",            text |-> t,    ref |-> "", calls |-> <<>>]
ReplaceEv(t)  == [type |-> "ReplaceResponse", text |-> t,    ref |-> "", calls |-> <<>>]
FileEv(r)     == [type |-> "File",            text |-> <<>>, ref |-> r,  calls |-> <<>>]
JsonEv(c)     == [type |-> "Json",            text |-> <<>>, ref |-> "", calls |-> c]
ErrorEv       == [type |-> "Error",           text |-> <<>>, ref |-> "", calls |-> <<>>]
DoneEv        == [type |-> "Done",            text |-> <<>>, ref |-> "", calls |-> <<>>]
\* Some(Err(PoeError)) and None: the two other outcomes of event_stream.next()
StreamErr     == [type |-> "StreamErr",       text |-> <<>>, ref |-> "", calls |-> <<>>]
StreamEnd     == [type |-> "End",             text |-> <<>>, ref |-> "", calls |-> <<>>]

RefIds == {"r"}

ChatTexts == { <<"a">>, <<"[", "r", "]">> }

ChatEvents ==
    {TextEv(t) : t \in ChatTexts}
    \cup {ReplaceEv(<<"b">>), ReplaceEv(<<"b", "[", "r", "]">>)}
    \cup {FileEv(r) : r \in RefIds}
    \cup {JsonEv(<<"c1">>), JsonEv(<<"c2">>)}
    \cup {ErrorEv, DoneEv}

\* What event_stream.next() may return now: the upstream ends after Done, and a
\* finished stream keeps returning None.
NextItems ==
    IF /\ ~upEnded
       /\ Len(upstream) < MaxEvents
       /\ (upstream = <<>> \/ Last(upstream).type # "Done")
    THEN ChatEvents \cup {StreamErr, StreamEnd}
    ELSE {StreamEnd}

\* The effect of event_stream.next() returning `it` on the upstream.
Pull(it) ==
    IF it.type = "End"
    THEN /\ upEnded' = TRUE
         /\ UNCHANGED upstream
    ELSE /\ upstream' = Append(upstream, it)
         /\ UNCHANGED upEnded

-----------------------------------------------------------------------------
(* SSE frames *)

NoUsage == [some |-> FALSE, prompt_tokens |-> 0, completion_tokens |-> 0, total_tokens |-> 0]

Usage(p, c) ==
    [some |-> TRUE, prompt_tokens |-> p, completion_tokens |-> c, total_tokens |-> p + c]

\* a ChatCompletionChunk with one Choice
Chunk(role, content, tool_calls, finish_reason) ==
    [kind |-> "chunk", role |-> role, content |-> content, tool_calls |-> tool_calls,
     finish_reason |-> finish_reason, usage |-> NoUsage]

\* final_json["usage"] = json!({...})
WithUsage(chunk, u) == [chunk EXCEPT !.usage = u]

\* "data: [DONE]\n\n"
DoneFrame ==
    [kind |-> "done", role |-> FALSE, content |-> None, tool_calls |-> None,
     finish_reason |-> "null", usage |-> NoUsage]

\* the {"error": ...} frame of a mid-stream error
ErrorFrame ==
    [kind |-> "error", role |-> FALSE, content |-> None, tool_calls |-> None,
     finish_reason |-> "null", usage |-> NoUsage]

\* create_stream_chunk(id, created, model, content, finish_reason)
create_stream_chunk(content, finish_reason) ==
    IF content = <<>> /\ finish_reason = "null"
    THEN Chunk(TRUE, None, None, finish_reason)
    ELSE Chunk(FALSE, Some(content), None, finish_reason)

\* Delta { role: Some("assistant"), .. } with finish_reason None
RoleChunk == Chunk(TRUE, None, None, "null")

\* Delta { tool_calls: Some(calls), .. } with finish_reason Some("tool_calls")
ToolChunk(calls) == Chunk(FALSE, None, Some(calls), "tool_calls")

\* Delta { content: Some(text), .. } with finish_reason None
ContentChunk(text) == Chunk(FALSE, Some(text), None, "null")

-----------------------------------------------------------------------------
(* chat.rs: the first events *)

\* `for _ in 0..3`
PeekCount == 3

NoResponse ==
    [content |-> <<>>, tool_calls |-> None, finish_reason |-> "null", usage |-> NoUsage]

\* EventContext::default()
EventContext0 ==
    [content |-> <<>>, replace_buffer |-> None, file_refs |-> {}, tool_calls |-> <<>>,
     is_replace_mode |-> FALSE, error |-> FALSE, done |-> FALSE,
     first_text_processed |-> FALSE, has_new_file_refs |-> FALSE,
     image_urls_sent |-> FALSE, reasoning_content |-> <<>>,
     in_thinking_mode |-> FALSE, thinking_started |-> FALSE,
     current_reasoning_line |-> <<>>, pending_text |-> <<>>]

\* The EventContext pipeline takes no part in a request chat.rs serves.
EvertIdle == UNCHANGED <<evertVars, restVars>>

\* The keys of the two trees ("url:<original_url>" and "base64:<hash>").
\* sled iterates a tree in the order of the key bytes.
UrlKeyOrder == <<"url:a", "url:b">>
HashKeyOrder == <<"base64:h">>
KeyOrder(tree) == IF tree = "urls" THEN UrlKeyOrder ELSE HashKeyOrder
UrlKeys == {UrlKeyOrder[i] : i \in 1..Len(UrlKeyOrder)}
HashKeys == {HashKeyOrder[i] : i \in 1..Len(HashKeyOrder)}
TreeKeys(tree) == IF tree = "urls" THEN UrlKeys ELSE HashKeys

\* A tree slot without an entry.
Absent == <<>>

\* Both trees empty.
EmptySled ==
    [urls |-> [k \in UrlKeys |-> Absent], base64 |-> [k \in HashKeys |-> Absent]]

\* Option<(String, usize)>::None
CacheMiss == [hit |-> FALSE, url |-> <<>>, size |-> 0]

\* No cache call made yet.
NoCacheOp ==
    [op |-> "none", tree |-> "none", key |-> "none", url |-> <<>>, size |-> 0,
     fault |-> "none", time |-> 0, result |-> CacheMiss, over |-> FALSE]

\* The request does not touch the cache.
CacheIdle ==
    /\ clock = 0
    /\ url_cache_ttl = 0
    /\ url_cache_size_mb = 0
    /\ sled = EmptySled
    /\ cache_calls = 0
    /\ lastOp = NoCacheOp

\* Option<bool>
SomeBool(b) == [some |-> TRUE, v |-> b]
NoBool == [some |-> FALSE, v |-> FALSE]

\* No tool_call_id.
NoId == ""

NoChatRequest == [model |-> <<>>, messages |-> <<>>]
NoConfig == [enable |-> NoBool, models |-> {}]
NoChatRequestObj == [tool_calls |-> None, tool_results |-> None]

\* No chat request is being assembled.
RequestIdle ==
    /\ chat_request = NoChatRequest
    /\ config = NoConfig
    /\ req_pc = "idle"
    /\ original_model = <<>>
    /\ display_model = <<>>
    /\ chat_request_obj = NoChatRequestObj

NoErrorEvent == [text |-> <<>>, allow_retry |-> FALSE]
NoHttpResponse == [status |-> 0, type |-> "", code |-> ""]

\* No Error event is being answered.
ErrorIdle ==
    /\ error_event = NoErrorEvent
    /\ http_response = NoHttpResponse

\* No request is at the rate limiter.
GateIdle ==
    /\ instant = 0
    /\ rate_limit_ms = 0
    /\ last_call = 0
    /\ lock_holder = 0
    /\ gate = <<>>

\* db.get(key) is Ok(None)
NoBytes == <<>>

\* No configuration is read or written.
ConfigIdle ==
    /\ models_yaml = NoConfig
    /\ sled_models_yaml = NoBytes
    /\ admin_pc = "idle"
    /\ reader = <<>>

\* std::env::temp_dir() as the call sees it: the files it created, those it
\* called fs::remove_file on, and those whose removal failed.
NoTempFiles == [created |-> {}, remove_tried |-> {}, remove_failed |-> {}]

\* process_message_images is not running.
ImagesIdle ==
    /\ img_pc = "idle"
    /\ items = <<>>
    /\ img_idx = 0
    /\ to_upload = <<>>
    /\ upload_calls = 0
    /\ img_faults = {}
    /\ img_result = "pending"
    /\ temp_files = <<>>
    /\ temp_dir = NoTempFiles

\* create_chat_request is not building a query.
NoAssembly == [model |-> <<>>, messages |-> <<>>, request |-> <<>>, models |-> {}]
QueryIdle ==
    /\ assembly = NoAssembly
    /\ query = <<>>
    /\ query_pc = "idle"

\* No request of the model list is running.
NoModelsConfig == [models |-> {}, custom_models |-> None]
ModelsIdle ==
    /\ models_config = NoModelsConfig
    /\ api_models_cache = None
    /\ write_guard = 0
    /\ list_request = <<>>
    /\ fetches = <<>>

\* The components outside the set running are not in use.
RestIdleExcept(running) ==
    /\ IF "cache" \in running THEN TRUE ELSE CacheIdle
    /\ IF "request" \in running THEN TRUE ELSE RequestIdle
    /\ IF "error" \in running THEN TRUE ELSE ErrorIdle
    /\ IF "gate" \in running THEN TRUE ELSE GateIdle
    /\ IF "config" \in running THEN TRUE ELSE ConfigIdle
    /\ IF "images" \in running THEN TRUE ELSE ImagesIdle
    /\ IF "query" \in running THEN TRUE ELSE QueryIdle
    /\ IF "models" \in running THEN TRUE ELSE ModelsIdle

\* A step of the components in the set running leaves the others alone.
RestUnchangedExcept(running) ==
    /\ IF "cache" \in running THEN TRUE ELSE UNCHANGED cacheVars
    /\ IF "request" \in running THEN TRUE ELSE UNCHANGED requestVars
    /\ IF "error" \in running THEN TRUE ELSE UNCHANGED errorVars
    /\ IF "gate" \in running THEN TRUE ELSE UNCHANGED gateVars
    /\ IF "config" \in running THEN TRUE ELSE UNCHANGED configVars
    /\ IF "images" \in running THEN TRUE ELSE UNCHANGED imagesVars
    /\ IF "query" \in running THEN TRUE ELSE UNCHANGED queryVars
    /\ IF "models" \in running THEN TRUE ELSE UNCHANGED modelsVars

RestIdle == RestIdleExcept({})

ChatInit ==
    /\ RestIdle
    /\ ctx = EventContext0
    /\ doc = <<>>
    /\ docPos = 0
    /\ fed = <<>>
    /\ directives = <<>>
    /\ parsed = <<>>
    /\ mode \in {"stream", "nonstream"}
    /\ include_usage \in BOOLEAN
    /\ prompt_tokens \in {6}
    /\ upstream = <<>>
    /\ upEnded = FALSE
    /\ pc = "peek"
    /\ peeked = 0
    /\ first_events = <<>>
    /\ has_done_event = FALSE
    /\ has_tool_calls = FALSE
    /\ initial_tool_calls = <<>>
    /\ accumulated_tool_calls = <<>>
    /\ file_refs = {}
    /\ text_acc = <<>>
    /\ first_text_processed = FALSE
    /\ done_received = FALSE
    /\ completion_tokens_counter = 0
    /\ result = "pending"
    /\ out = <<>>
    /\ response = NoResponse

FirstState0 ==
    [replace_response |-> FALSE, full_content |-> <<>>, file_refs |-> {},
     tool_calls |-> <<>>, error |-> FALSE]

\* handle_stream_response: `for event in first_two_events { match event.event ... }`;
\* an Error event returns from the handler unless a ReplaceResponse came before it
RECURSIVE StreamFirstEvents(_, _)
StreamFirstEvents(evs, st) ==
    IF evs = <<>> \/ st.error
    THEN st
    ELSE LET e == Head(evs)
             st2 ==
               CASE e.type = "ReplaceResponse" ->
                      [st EXCEPT !.replace_response = TRUE, !.full_content = e.text]
                 [] e.type = "Text" ->
                      IF st.replace_response THEN st
                      ELSE [st EXCEPT !.full_content = @ \o e.text]
                 [] e.type = "File" -> [st EXCEPT !.file_refs = @ \cup {e.ref}]
                 [] e.type = "Error" ->
                      IF st.replace_response THEN st ELSE [st EXCEPT !.error = TRUE]
                 [] OTHER -> st
         IN StreamFirstEvents(Tail(evs), st2)

\* handle_non_stream_response: `for event in first_three_events { match event.event ... }`;
\* an Error event always returns from the handler
RECURSIVE NonStreamFirstEvents(_, _)
NonStreamFirstEvents(evs, st) ==
    IF evs = <<>> \/ st.error
    THEN st
    ELSE LET e == Head(evs)
             st2 ==
               CASE e.type = "ReplaceResponse" ->
                      [st EXCEPT !.replace_response = TRUE, !.full_content = e.text]
                 [] e.type = "Text" ->
                      IF st.replace_response THEN st
                      ELSE [st EXCEPT !.full_content = @ \o e.text]
                 [] e.type = "File" -> [st EXCEPT !.file_refs = @ \cup {e.ref}]
                 [] e.type = "Json" -> [st EXCEPT !.tool_calls = @ \o e.calls]
                 [] e.type = "Error" -> [st EXCEPT !.error = TRUE]
                 [] OTHER -> st
         IN NonStreamFirstEvents(Tail(evs), st2)

\* handle_stream_response: one iteration of the loop that reads the first events.
\* A Done is taken from the stream and only remembered in has_done_event.
StreamPeek ==
    /\ mode = "stream"
    /\ pc = "peek"
    /\ \E it \in NextItems :
         /\ Pull(it)
         /\ has_done_event' = (has_done_event \/ it.type = "Done")
         /\ first_events' =
              IF it.type \in {"Done", "StreamErr", "End"}
              THEN first_events ELSE Append(first_events, it)
         /\ has_tool_calls' = (has_tool_calls \/ it.type = "Json")
         /\ initial_tool_calls' =
              IF it.type = "Json" THEN it.calls ELSE initial_tool_calls
    /\ peeked' = peeked + 1
    /\ pc' = IF peeked + 1 = PeekCount THEN "initial" ELSE "peek"
    /\ EvertIdle
    /\ UNCHANGED <<mode, include_usage, prompt_tokens, accumulated_tool_calls,
                   file_refs, text_acc, first_text_processed, done_received,
                   completion_tokens_counter, result, out, response>>

\* handle_non_stream_response: one iteration of the loop that reads the first events
NonStreamPeek ==
    /\ mode = "nonstream"
    /\ pc = "peek"
    /\ \E it \in NextItems :
         /\ Pull(it)
         /\ has_done_event' = (has_done_event \/ it.type = "Done")
         /\ first_events' =
              IF it.type \in {"Done", "StreamErr", "End"}
              THEN first_events ELSE Append(first_events, it)
    /\ peeked' = peeked + 1
    /\ pc' = IF peeked + 1 = PeekCount THEN "initial" ELSE "peek"
    /\ EvertIdle
    /\ UNCHANGED <<mode, include_usage, prompt_tokens, has_tool_calls,
                   initial_tool_calls, accumulated_tool_calls,
                   file_refs, text_acc, first_text_processed, done_received,
                   completion_tokens_counter, result, out, response>>

-----------------------------------------------------------------------------
(* chat.rs: handle_stream_response *)

\* role_message + tool_message, or role_message + content_message, or role_message
StdInitialMessages(full) ==
    LET tool_message ==
          IF has_tool_calls /\ initial_tool_calls # <<>>
          THEN <<ToolChunk(initial_tool_calls)>> ELSE <<>>
        content_message ==
          IF full # <<>> /\ ~has_tool_calls
          THEN <<create_stream_chunk(full, "null")>> ELSE <<>>
    IN IF has_tool_calls
       THEN <<RoleChunk>> \o tool_message
       ELSE <<RoleChunk>> \o content_message

\* done_message of the branch `has_tool_calls && has_done_event`
StdDoneMessage(full) ==
    IF include_usage
    THEN << WithUsage(create_stream_chunk(<<>>, "tool_calls"),
                      Usage(prompt_tokens, count_completion_tokens(full))),
            DoneFrame >>
    ELSE << DoneFrame >>

\* handle_tool_calls_in_stream: first_messages = role + tool + content
ToolStreamFirstMessages(initial_content, calls) ==
    <<RoleChunk>>
    \o (IF calls # <<>> THEN <<ToolChunk(calls)>> ELSE <<>>)
    \o (IF initial_content # <<>> THEN <<ContentChunk(initial_content)>> ELSE <<>>)

\* The terminal frames of the Done arm of the standard unfold
StdFinalMessage(full_text) ==
    LET finish_reason == IF has_tool_calls THEN "tool_calls" ELSE "stop"
        final_chunk == create_stream_chunk(<<>>, finish_reason)
    IN IF include_usage
       THEN << WithUsage(final_chunk,
                         Usage(prompt_tokens, count_completion_tokens(full_text))),
               DoneFrame >>
       ELSE << final_chunk, DoneFrame >>

\* handle_stream_response from the end of the first-event loop to res.stream(..):
\* the first events are folded, the image references replaced and the branch chosen.
StreamInitial ==
    /\ mode = "stream"
    /\ pc = "initial"
    /\ LET st == StreamFirstEvents(first_events, FirstState0)
           full == ReplaceRefs(st.full_content, st.file_refs)
           direct == has_tool_calls /\ has_done_event
       IN IF st.error
          THEN /\ result' = "error"
               /\ pc' = "finished"
               /\ UNCHANGED <<file_refs, text_acc, out, done_received,
                              completion_tokens_counter>>
          ELSE /\ result' = "stream"
               /\ file_refs' = st.file_refs
               /\ text_acc' = full
               /\ IF st.replace_response
                  THEN IF has_tool_calls
                       THEN /\ out' = ToolStreamFirstMessages(full, initial_tool_calls)
                            /\ pc' = "tool_unfold"
                            /\ UNCHANGED <<done_received, completion_tokens_counter>>
                       ELSE /\ out' = <<>>
                            /\ done_received' = has_done_event
                            /\ pc' = IF has_done_event
                                     THEN "replace_final" ELSE "replace_collect"
                            /\ UNCHANGED completion_tokens_counter
                  ELSE /\ out' = StdInitialMessages(full)
                                 \o (IF direct THEN StdDoneMessage(full) ELSE <<>>)
                       /\ pc' = IF direct THEN "finished" ELSE "std_unfold"
                       /\ completion_tokens_counter' =
                            IF direct /\ include_usage
                            THEN count_completion_tokens(full)
                            ELSE completion_tokens_counter
                       /\ UNCHANGED done_received
    /\ EvertIdle
    /\ UNCHANGED <<mode, include_usage, prompt_tokens, upstream, upEnded, peeked,
                   first_events, has_done_event, has_tool_calls, initial_tool_calls,
                   accumulated_tool_calls, first_text_processed, response>>

\* One poll of the stream::unfold of the standard branch.  The poll after Done or
\* Error (is_done) only returns None and is folded into the step that set is_done.
StdUnfoldStep ==
    /\ mode = "stream"
    /\ pc = "std_unfold"
    /\ \E it \in NextItems :
         LET text_to_send == ReplaceRefs(it.text, file_refs)
         IN /\ Pull(it)
            /\ file_refs' = IF it.type = "File" THEN file_refs \cup {it.ref} ELSE file_refs
            /\ text_acc' = IF it.type = "Text" THEN text_acc \o text_to_send ELSE text_acc
            /\ out' = out \o
                 (CASE it.type = "Text" ->
                         IF ~has_tool_calls
                         THEN <<create_stream_chunk(text_to_send, "null")>> ELSE <<>>
                    [] it.type = "Json" -> <<ToolChunk(it.calls)>>
                    [] it.type = "Error" -> <<ErrorFrame, DoneFrame>>
                    [] it.type = "Done" -> StdFinalMessage(text_acc)
                    [] OTHER -> <<>>)
            /\ completion_tokens_counter' =
                 IF it.type = "Done" /\ include_usage
                 THEN count_completion_tokens(text_acc)
                 ELSE completion_tokens_counter
            /\ pc' = IF it.type \in {"Error", "Done", "StreamErr", "End"}
                     THEN "finished" ELSE "std_unfold"
    /\ EvertIdle
    /\ UNCHANGED <<mode, include_usage, prompt_tokens, peeked, first_events,
                   has_done_event, has_tool_calls, initial_tool_calls,
                   accumulated_tool_calls, first_text_processed, done_received,
                   result, response>>

\* handle_tool_calls_in_stream: one poll of event_processor
ToolUnfoldStep ==
    /\ mode = "stream"
    /\ pc = "tool_unfold"
    /\ \E it \in NextItems :
         LET finish_reason == IF initial_tool_calls # <<>> THEN "tool_calls" ELSE "stop"
         IN /\ Pull(it)
            /\ accumulated_tool_calls' =
                 CASE it.type = "Json" -> accumulated_tool_calls \o it.calls
                   [] it.type \in {"Done", "StreamErr"} -> <<>>
                   [] OTHER -> accumulated_tool_calls
            /\ out' = out \o
                 (CASE it.type = "Text" -> <<ContentChunk(it.text)>>
                    [] it.type = "Done" ->
                         IF accumulated_tool_calls # <<>>
                         THEN <<ToolChunk(accumulated_tool_calls)>>
                         ELSE <<create_stream_chunk(<<>>, finish_reason)>>
                    [] it.type = "StreamErr" -> <<ErrorFrame, DoneFrame>>
                    [] OTHER -> <<>>)
            /\ pc' = IF it.type \in {"Done", "StreamErr", "End"}
                     THEN "tool_done_part" ELSE "tool_unfold"
    /\ EvertIdle
    /\ UNCHANGED <<mode, include_usage, prompt_tokens, peeked, first_events,
                   has_done_event, has_tool_calls, initial_tool_calls, file_refs,
                   text_acc, first_text_processed, done_received,
                   completion_tokens_counter, result, response>>

\* handle_tool_calls_in_stream: done_part, chained after event_processor
ToolDonePart ==
    /\ mode = "stream"
    /\ pc = "tool_done_part"
    /\ out' = Append(out, DoneFrame)
    /\ pc' = "finished"
    /\ EvertIdle
    /\ UNCHANGED <<mode, include_usage, prompt_tokens, upstream, upEnded, peeked,
                   first_events, has_done_event, has_tool_calls, initial_tool_calls,
                   accumulated_tool_calls, file_refs, text_acc, first_text_processed,
                   done_received, completion_tokens_counter, result, response>>

-----------------------------------------------------------------------------
(* chat.rs: handle_replace_response and its two callers *)

\* A collector that goes on waiting at the end of the stream: it leaves its loop
\* on Done and on a stream error only.
CollectorEndsUnlessStreamEnds(it) == it.type \in {"Done", "StreamErr"}

\* The background task leaves `while let Some(result) = event_stream.next().await`
\* and the one-shot sender is sent or dropped: on Done (send, break), on Err(e)
\* (break, then the send after the loop) and when the stream returns None.
CollectorEnds(it) == it.type \in {"Done", "StreamErr", "End"}

\* One event of the background task's `while let Some(result) = event_stream.next()`
ReplaceCollect ==
    /\ pc = "replace_collect"
    /\ \E it \in NextItems :
         /\ Pull(it)
         /\ text_acc' =
              CASE it.type = "ReplaceResponse" -> it.text
                [] it.type = "Text" -> text_acc \o it.text
                [] OTHER -> text_acc
         /\ first_text_processed' = (first_text_processed \/ it.type = "Text")
         /\ file_refs' = IF it.type = "File" THEN file_refs \cup {it.ref} ELSE file_refs
         /\ done_received' = (done_received \/ it.type = "Done")
         /\ pc' = IF CollectorEnds(it) THEN "replace_final" ELSE "replace_collect"
    /\ EvertIdle
    /\ UNCHANGED <<mode, include_usage, prompt_tokens, peeked, first_events,
                   has_done_event, has_tool_calls, initial_tool_calls,
                   accumulated_tool_calls, completion_tokens_counter, result, out,
                   response>>

\* handle_replace_response after rx.await (final_content), then the caller: the
\* stream::once of handle_stream_response, or the response of
\* handle_non_stream_response.
ReplaceFinal ==
    /\ pc = "replace_final"
    /\ LET content == ReplaceRefs(text_acc, file_refs)
           counter == IF include_usage
                      THEN count_completion_tokens(content)
                      ELSE completion_tokens_counter
           completion_tokens == IF include_usage THEN counter ELSE 0
           usage == IF include_usage
                    THEN Usage(prompt_tokens, completion_tokens) ELSE NoUsage
       IN /\ completion_tokens_counter' = counter
          /\ IF mode = "stream"
             THEN /\ out' = out \o << create_stream_chunk(content, "null"),
                                      WithUsage(create_stream_chunk(<<>>, "stop"), usage),
                                      DoneFrame >>
                  /\ UNCHANGED <<response, result>>
             ELSE /\ response' = [content |-> content, tool_calls |-> None,
                                  finish_reason |-> "stop", usage |-> usage]
                  /\ result' = "json"
                  /\ UNCHANGED out
    /\ pc' = "finished"
    /\ EvertIdle
    /\ UNCHANGED <<mode, include_usage, prompt_tokens, upstream, upEnded, peeked,
                   first_events, has_done_event, has_tool_calls, initial_tool_calls,
                   accumulated_tool_calls, file_refs, text_acc, first_text_processed,
                   done_received>>

-----------------------------------------------------------------------------
(* chat.rs: handle_non_stream_response *)

\* From the end of the first-event loop to the choice of the branch
NonStreamInitial ==
    /\ mode = "nonstream"
    /\ pc = "initial"
    /\ LET st == NonStreamFirstEvents(first_events, FirstState0)
           full == ReplaceRefs(st.full_content, st.file_refs)
       IN IF st.error
          THEN /\ result' = "error"
               /\ pc' = "finished"
               /\ UNCHANGED <<file_refs, text_acc, done_received,
                              accumulated_tool_calls>>
          ELSE /\ file_refs' = st.file_refs
               /\ text_acc' = full
               /\ accumulated_tool_calls' = st.tool_calls
               /\ done_received' = IF st.replace_response
                                   THEN has_done_event ELSE done_received
               /\ pc' = IF st.replace_response
                        THEN (IF has_done_event THEN "replace_final" ELSE "replace_collect")
                        ELSE "ns_loop"
               /\ UNCHANGED result
    /\ EvertIdle
    /\ UNCHANGED <<mode, include_usage, prompt_tokens, upstream, upEnded, peeked,
                   first_events, has_done_event, has_tool_calls, initial_tool_calls,
                   first_text_processed, completion_tokens_counter, out, response>>

\* The response built after the `while let` loop of the standard branch
NonStreamResponse(content, calls) ==
    LET completion_tokens == IF include_usage THEN count_completion_tokens(content) ELSE 0
    IN [content |-> content,
        tool_calls |-> IF calls = <<>> THEN None ELSE Some(calls),
        finish_reason |-> IF calls # <<>> THEN "tool_calls" ELSE "stop",
        usage |-> IF include_usage
                  THEN Usage(prompt_tokens, completion_tokens) ELSE NoUsage]

\* One iteration of `while let Some(Ok(event)) = event_stream.next().await`; when
\* the loop is left (Done, a stream error, the end of the stream) the response is
\* built, and an Error event returns the error response.
NonStreamLoop ==
    /\ mode = "nonstream"
    /\ pc = "ns_loop"
    /\ \E it \in NextItems :
         LET leave == it.type \in {"Done", "StreamErr", "End"}
             content == ReplaceRefs(text_acc, file_refs)
         IN /\ Pull(it)
            /\ text_acc' =
                 CASE it.type = "Text" -> text_acc \o it.text
                   [] leave -> content
                   [] OTHER -> text_acc
            /\ file_refs' = IF it.type = "File" THEN file_refs \cup {it.ref} ELSE file_refs
            /\ accumulated_tool_calls' =
                 IF it.type = "Json"
                 THEN accumulated_tool_calls \o it.calls ELSE accumulated_tool_calls
            /\ result' = CASE it.type = "Error" -> "error"
                           [] leave -> "json"
                           [] OTHER -> result
            /\ response' = IF leave
                           THEN NonStreamResponse(content, accumulated_tool_calls)
                           ELSE response
            /\ completion_tokens_counter' =
                 IF leave /\ include_usage
                 THEN count_completion_tokens(content) ELSE completion_tokens_counter
            /\ pc' = IF leave \/ it.type = "Error" THEN "finished" ELSE "ns_loop"
    /\ EvertIdle
    /\ UNCHANGED <<mode, include_usage, prompt_tokens, peeked, first_events,
                   has_done_event, has_tool_calls, initial_tool_calls,
                   first_text_processed, done_received, out>>

-----------------------------------------------------------------------------

ChatNext ==
    \/ StreamPeek
    \/ NonStreamPeek
    \/ StreamInitial
    \/ StdUnfoldStep
    \/ ToolUnfoldStep
    \/ ToolDonePart
    \/ ReplaceCollect
    \/ ReplaceFinal
    \/ NonStreamInitial
    \/ NonStreamLoop

SpecChat == ChatInit /\ [][ChatNext]_vars

-----------------------------------------------------------------------------
(* evert.rs: the text operations the ThinkingProcessor uses *)

SP == " "

\* char::is_whitespace, on the characters of the model
IsWhitespace(c) == c \in {SP, NL}

RECURSIVE TrimStart(_)
TrimStart(s) ==
    IF s # <<>> /\ IsWhitespace(Head(s)) THEN TrimStart(Tail(s)) ELSE s

RECURSIVE TrimEnd(_)
TrimEnd(s) ==
    IF s # <<>> /\ IsWhitespace(Last(s)) THEN TrimEnd(SubSeq(s, 1, Len(s) - 1)) ELSE s

\* str::trim
Trim(s) == TrimEnd(TrimStart(s))

\* str::starts_with
StartsWith(s, p) == MatchAt(s, p, 1)

\* str::ends_with
EndsWith(s, p) == MatchAt(s, p, Len(s) - Len(p) + 1)

\* str::strip_prefix(p).unwrap_or(s)
StripPrefix(s, p) == IF StartsWith(s, p) THEN SubSeq(s, Len(p) + 1, Len(s)) ELSE s

\* str::lines: split at "\n"; a final empty piece (after a trailing "\n") is no line
RECURSIVE Lines(_)
Lines(s) ==
    IF s = <<>>
    THEN <<>>
    ELSE LET i == Find(s, <<NL>>)
         IN IF i = 0
            THEN <<s>>
            ELSE <<SubSeq(s, 1, i - 1)>> \o Lines(SubSeq(s, i + 1, Len(s)))

\* [..].join("\n")
RECURSIVE JoinLines(_)
JoinLines(ls) ==
    IF ls = <<>> THEN <<>>
    ELSE IF Len(ls) = 1 THEN ls[1]
    ELSE ls[1] \o <<NL>> \o JoinLines(Tail(ls))

\* "*Thinking...*" and "Thinking..."
StarMarker == <<"*", "T", "*">>
PlainMarker == <<"T">>
QuoteMark == <<">", SP>>

\* ThinkingProcessor::detect_thinking_start: the 1-based position, 0 for None
detect_thinking_start(text) ==
    IF Find(text, StarMarker) # 0 THEN Find(text, StarMarker)
    ELSE Find(text, PlainMarker)

-----------------------------------------------------------------------------
(* evert.rs: ThinkingProcessor::process_thinking_content *)

\* `trimmed.starts_with("> ") || trimmed == ">"`
IsThinkingLine(trimmed) == StartsWith(trimmed, QuoteMark) \/ trimmed = <<">">>

\* The `while j < lines.len()` loop that looks for lines continuing line i
\* (j and i are 1-based here).  The result is [j, full_line].
RECURSIVE ContinuationLoop(_, _, _, _, _)
ContinuationLoop(pending, lines, i, j, full_line) ==
    IF j > Len(lines)
    THEN [j |-> j, full_line |-> full_line]
    ELSE LET next_line == Trim(lines[j])
             line == lines[i]
             \* 0-based byte offsets, as in the code
             current_pos == Find(pending, line) - 1
             rest == SubSeq(pending, current_pos + 1, Len(pending))
             relative_next_pos == Find(rest, next_line) - 1
             next_pos == current_pos + relative_next_pos
             start_pos == current_pos + Len(line)
             between_text == SubSeq(pending, start_pos + 1, next_pos)
         IN IF ~StartsWith(next_line, QuoteMark) /\ next_line # <<>>
            THEN IF /\ current_pos >= 0
                    /\ relative_next_pos >= 0
                    /\ start_pos <= next_pos
                    /\ ~Contains(between_text, <<NL>>)
                 THEN ContinuationLoop(pending, lines, i, j + 1, full_line \o next_line)
                 ELSE [j |-> j, full_line |-> full_line]
            ELSE IF next_line = <<>>
                 THEN ContinuationLoop(pending, lines, i, j + 1, full_line)
                 ELSE [j |-> j, full_line |-> full_line]

\* The `for (i, line) in lines.iter().enumerate()` loop; i is 1-based, and
\* processed_lines counts lines as in the code.
RECURSIVE LineLoop(_, _, _, _)
LineLoop(pending, lines, i, st) ==
    IF i > Len(lines)
    THEN st
    ELSE LET trimmed == Trim(lines[i])
             thinking_content ==
               IF trimmed = <<">">> THEN <<>> ELSE StripPrefix(trimmed, QuoteMark)
         IN IF IsThinkingLine(trimmed)
            THEN IF i = Len(lines) /\ ~EndsWith(pending, <<NL>>)
                 THEN [st EXCEPT !.current_reasoning_line = thinking_content]
                 ELSE LET c == ContinuationLoop(pending, lines, i, i + 1, thinking_content)
                      IN LineLoop(pending, lines, i + 1,
                            [st EXCEPT !.reasoning_chunks = Append(@, c.full_line),
                                       !.processed_lines = c.j - 1])
            ELSE IF trimmed = <<>>
                 THEN LineLoop(pending, lines, i + 1, [st EXCEPT !.processed_lines = i])
                 ELSE [st EXCEPT !.thinking_ended = TRUE, !.processed_lines = i - 1]

\* The end of process_thinking_content ("Combine thinking content",
\* "Calculate remaining text"), given the lines and what the loop left
ThinkingResult(c, lines, st) ==
    LET combined_reasoning == JoinLines(st.reasoning_chunks)
        pushed == c.reasoning_content \o combined_reasoning
        reasoning_content ==
          IF st.reasoning_chunks = <<>> THEN c.reasoning_content
          ELSE IF EndsWith(pushed, <<NL>>) THEN pushed ELSE pushed \o <<NL>>
        remaining_text ==
          IF st.processed_lines < Len(lines)
          THEN JoinLines(SubSeq(lines, st.processed_lines + 1, Len(lines)))
          ELSE IF st.current_reasoning_line # <<>> /\ ~st.thinking_ended
               THEN QuoteMark \o st.current_reasoning_line
               ELSE <<>>
    IN [reasoning_chunk |-> IF st.reasoning_chunks = <<>> THEN None
                            ELSE Some(combined_reasoning),
        remaining_text |-> remaining_text,
        thinking_ended |-> st.thinking_ended,
        ctx |-> [c EXCEPT !.current_reasoning_line = st.current_reasoning_line,
                          !.reasoning_content = reasoning_content]]

\* ThinkingProcessor::process_thinking_content(ctx): the returned
\* (reasoning_chunk, remaining_text, thinking_ended) and the context it leaves
process_thinking_content(c) ==
    ThinkingResult(c, Lines(c.pending_text),
       LineLoop(c.pending_text, Lines(c.pending_text), 1,
                [reasoning_chunks |-> <<>>, thinking_ended |-> FALSE,
                 processed_lines |-> 0,
                 current_reasoning_line |-> c.current_reasoning_line]))

-----------------------------------------------------------------------------
(* evert.rs: ThinkingProcessor::process_text_chunk *)

\* What process_text_chunk does with r, the result of process_thinking_content
AfterThinking(r, content_output) ==
    LET c1 == [r.ctx EXCEPT !.pending_text = r.remaining_text]
        flush == r.thinking_ended /\ Trim(r.remaining_text) # <<>>
    IN [reasoning |-> r.reasoning_chunk,
        content |->
          IF flush
          THEN (IF content_output.some
                THEN Some(content_output.v \o r.remaining_text)
                ELSE Some(r.remaining_text))
          ELSE content_output,
        ctx |->
          IF ~r.thinking_ended THEN c1
          ELSE IF flush
               THEN [c1 EXCEPT !.in_thinking_mode = FALSE,
                               !.content = @ \o r.remaining_text,
                               !.pending_text = <<>>]
               ELSE [c1 EXCEPT !.in_thinking_mode = FALSE]]

\* The part of process_text_chunk after the marker search ("Process content in
\* thinking mode"), given the context and the content_output so far
ThinkingModeStep(c, content_output) ==
    IF c.thinking_started /\ c.in_thinking_mode
    THEN AfterThinking(process_thinking_content(c), content_output)
    ELSE IF c.thinking_started /\ ~c.in_thinking_mode /\ Trim(c.pending_text) # <<>>
         THEN [reasoning |-> None,
               content |-> Some(c.pending_text),
               ctx |-> [c EXCEPT !.content = @ \o c.pending_text,
                                 !.pending_text = <<>>]]
         ELSE [reasoning |-> None, content |-> content_output, ctx |-> c]

\* `after_thinking` with the marker it starts with removed
AfterMarker(after_thinking) ==
    IF StartsWith(after_thinking, StarMarker)
    THEN StripPrefix(after_thinking, StarMarker)
    ELSE IF StartsWith(after_thinking, PlainMarker)
         THEN StripPrefix(after_thinking, PlainMarker)
         ELSE after_thinking

\* The context when the marker has just been found at thinking_pos (1-based)
MarkerFound(c, thinking_pos) ==
    [c EXCEPT !.thinking_started = TRUE,
              !.in_thinking_mode = TRUE,
              !.content = IF Trim(SubSeq(c.pending_text, 1, thinking_pos - 1)) # <<>>
                          THEN @ \o SubSeq(c.pending_text, 1, thinking_pos - 1)
                          ELSE @,
              !.pending_text =
                 AfterMarker(SubSeq(c.pending_text, thinking_pos, Len(c.pending_text)))]

\* The content_output when the marker has just been found: the text before it
BeforeThinking(c, thinking_pos) ==
    IF Trim(SubSeq(c.pending_text, 1, thinking_pos - 1)) # <<>>
    THEN Some(SubSeq(c.pending_text, 1, thinking_pos - 1))
    ELSE None

\* process_text_chunk once new_text is in ctx.pending_text
ProcessPending(c, thinking_pos) ==
    IF ~c.thinking_started /\ thinking_pos = 0
    THEN IF Trim(c.pending_text) # <<>>
         THEN [reasoning |-> None,
               content |-> Some(c.pending_text),
               ctx |-> [c EXCEPT !.content = @ \o c.pending_text,
                                 !.pending_text = <<>>]]
         ELSE [reasoning |-> None, content |-> None, ctx |-> c]
    ELSE ThinkingModeStep(
            IF ~c.thinking_started THEN MarkerFound(c, thinking_pos) ELSE c,
            IF ~c.thinking_started THEN BeforeThinking(c, thinking_pos) ELSE None)

\* ThinkingProcessor::process_text_chunk(ctx, new_text): the returned
\* (reasoning_chunk, content_chunk) and the context it leaves
process_text_chunk(c0, new_text) ==
    ProcessPending([c0 EXCEPT !.pending_text = @ \o new_text],
                   detect_thinking_start(c0.pending_text \o new_text))

-----------------------------------------------------------------------------
(* evert.rs: the event handlers.  Each yields the context it leaves (ctx), the *)
(* Option<String> it returns (ret) and the process_text_chunk result, if any. *)

NoDirective   == [kind |-> "none", text |-> <<>>, name |-> ""]
TextOut(t)    == [kind |-> "text", text |-> t, name |-> ""]
Sentinel(n)   == [kind |-> "sentinel", text |-> <<>>, name |-> n]

\* an Option<String> of content as a directive
OptOut(o) == IF o.some THEN TextOut(o.v) ELSE NoDirective

NoParse == [called |-> FALSE, reasoning |-> None, content |-> None]
Parse(r) == [called |-> TRUE, reasoning |-> r.reasoning, content |-> r.content]

\* TextEventHandler::handle: what it does with r, the result of
\* process_text_chunk; in normal mode content that comes with reasoning is put
\* back in front of pending_text
TextAfterParse(r, normal_mode) ==
    IF r.reasoning.some
    THEN [ctx |-> IF normal_mode /\ r.content.some
                  THEN [r.ctx EXCEPT !.pending_text = r.content.v \o @]
                  ELSE r.ctx,
          ret |-> Sentinel("__REASONING_DETECTED__"),
          parse |-> Parse(r)]
    ELSE [ctx |-> r.ctx, ret |-> OptOut(r.content), parse |-> Parse(r)]

\* The first Text after a ReplaceResponse, with a replace_buffer
FirstReplaceText(c) ==
    c.is_replace_mode /\ ~c.first_text_processed /\ c.replace_buffer.some

\* The context TextEventHandler::handle gives to process_text_chunk
TextParseCtx(c, text) ==
    IF FirstReplaceText(c)
    THEN [c EXCEPT !.replace_buffer = Some(@.v \o text),
                   !.first_text_processed = TRUE]
    ELSE IF c.is_replace_mode /\ c.first_text_processed
         THEN [c EXCEPT !.is_replace_mode = FALSE,
                        !.first_text_processed = FALSE,
                        !.content = IF c.replace_buffer.some
                                    THEN c.replace_buffer.v ELSE @,
                        !.replace_buffer = None]
         ELSE c

\* TextEventHandler::handle
TextEventHandler(c, text) ==
    IF c.is_replace_mode /\ ~c.first_text_processed /\ ~c.replace_buffer.some
    THEN [ctx |-> [c EXCEPT !.content = @ \o text],
          ret |-> TextOut(text),
          parse |-> NoParse]
    ELSE TextAfterParse(
            process_text_chunk(TextParseCtx(c, text),
                               IF FirstReplaceText(c)
                               THEN c.replace_buffer.v \o text ELSE text),
            ~FirstReplaceText(c))

\* FileEventHandler::handle
FileEventHandler(c, ref) ==
    LET c1 == [c EXCEPT !.file_refs = @ \cup {ref}, !.has_new_file_refs = TRUE]
        emit == /\ ~c1.image_urls_sent
                /\ c1.replace_buffer.some
                /\ Contains(c1.replace_buffer.v, ImgMarker(ref))
    IN IF emit
       THEN [ctx |-> [c1 EXCEPT !.image_urls_sent = TRUE],
             ret |-> TextOut(StrReplace(c1.replace_buffer.v, ImgMarker(ref),
                                        Replacement(ref))),
             parse |-> NoParse]
       ELSE [ctx |-> c1, ret |-> NoDirective, parse |-> NoParse]

\* ReplaceResponseEventHandler::handle
ReplaceResponseEventHandler(c, text) ==
    LET c1 == [c EXCEPT !.is_replace_mode = TRUE,
                        !.replace_buffer = Some(text),
                        !.first_text_processed = FALSE]
        processed == ReplaceRefs(text, c1.file_refs)
        has_refs == /\ c1.file_refs # {}
                    /\ Contains(text, <<"[">>)
                    /\ processed # text
    IN IF has_refs
       THEN [ctx |-> [c1 EXCEPT !.image_urls_sent = TRUE],
             ret |-> TextOut(processed), parse |-> NoParse]
       ELSE [ctx |-> c1, ret |-> NoDirective, parse |-> NoParse]

\* JsonEventHandler::handle
JsonEventHandler(c, calls) ==
    [ctx |-> [c EXCEPT !.tool_calls = @ \o calls],
     ret |-> Sentinel("tool_calls"), parse |-> NoParse]

\* ErrorEventHandler::handle
ErrorEventHandler(c) ==
    [ctx |-> [c EXCEPT !.error = TRUE], ret |-> Sentinel("error"), parse |-> NoParse]

\* DoneEventHandler::handle
DoneEventHandler(c) ==
    LET c1 == [c EXCEPT !.done = TRUE]
        processed == IF c1.replace_buffer.some
                     THEN ReplaceRefs(c1.replace_buffer.v, c1.file_refs) ELSE <<>>
        has_refs == /\ ~c1.image_urls_sent
                    /\ c1.replace_buffer.some
                    /\ c1.file_refs # {}
                    /\ processed # c1.replace_buffer.v
    IN IF has_refs
       THEN [ctx |-> [c1 EXCEPT !.image_urls_sent = TRUE],
             ret |-> TextOut(processed), parse |-> NoParse]
       ELSE [ctx |-> c1, ret |-> Sentinel("done"), parse |-> NoParse]

-----------------------------------------------------------------------------
(* evert.rs: EventHandlerManager::handle, one action per event type *)

\* "A *Thinking...*\n> f\n> g\nz" and "a*Thinking...*> f\nz": content, the
\* trigger, thinking lines, content; and a text with an image reference
EvertDocs ==
    { <<"a", "*", "T", "*", NL, ">", SP, "f", NL, ">", SP, "g", NL, "z">>,
      <<"a", "*", "T", "*", ">", SP, "f", NL, "z">>,
      <<"a", "[", "r", "]", "z">> }

EvertReplaceTexts == { <<"b">>, <<"b", "[", "r", "]">> }

\* The chat.rs request is not running.
ChatIdle ==
    /\ mode = "stream"
    /\ include_usage = FALSE
    /\ prompt_tokens = 6
    /\ upstream = <<>>
    /\ upEnded = FALSE
    /\ pc = "idle"
    /\ peeked = 0
    /\ first_events = <<>>
    /\ has_done_event = FALSE
    /\ has_tool_calls = FALSE
    /\ initial_tool_calls = <<>>
    /\ accumulated_tool_calls = <<>>
    /\ file_refs = {}
    /\ text_acc = <<>>
    /\ first_text_processed = FALSE
    /\ done_received = FALSE
    /\ completion_tokens_counter = 0
    /\ result = "pending"
    /\ out = <<>>
    /\ response = NoResponse

EvertInit ==
    /\ ChatIdle
    /\ RestIdle
    /\ ctx = EventContext0
    /\ doc \in EvertDocs
    /\ docPos = 0
    /\ fed = <<>>
    /\ directives = <<>>
    /\ parsed = <<>>

\* The manager is given event e and handler result h.
Handled(e, h) ==
    /\ ctx' = h.ctx
    /\ fed' = Append(fed, e)
    /\ directives' = Append(directives, h.ret)
    /\ parsed' = IF h.parse.called THEN Append(parsed, h.parse) ELSE parsed
    /\ UNCHANGED <<chatVars, restVars>>

CanFeed == ~ctx.done /\ Len(fed) < MaxEvertEvents

\* ChatEventType::Text: the upstream sends the next piece of its text
EvText ==
    /\ CanFeed
    /\ \E k \in 1..(Len(doc) - docPos) :
         LET text == SubSeq(doc, docPos + 1, docPos + k)
         IN /\ Handled(TextEv(text), TextEventHandler(ctx, text))
            /\ docPos' = docPos + k
    /\ UNCHANGED doc

\* ChatEventType::File
EvFile ==
    /\ CanFeed
    /\ \E r \in RefIds : Handled(FileEv(r), FileEventHandler(ctx, r))
    /\ UNCHANGED <<doc, docPos>>

\* ChatEventType::ReplaceResponse
EvReplaceResponse ==
    /\ CanFeed
    /\ \E t \in EvertReplaceTexts :
         Handled(ReplaceEv(t), ReplaceResponseEventHandler(ctx, t))
    /\ UNCHANGED <<doc, docPos>>

\* ChatEventType::Json
EvJson ==
    /\ CanFeed
    /\ \E calls \in {<<"c1">>} : Handled(JsonEv(calls), JsonEventHandler(ctx, calls))
    /\ UNCHANGED <<doc, docPos>>

\* ChatEventType::Error
EvError ==
    /\ CanFeed
    /\ Handled(ErrorEv, ErrorEventHandler(ctx))
    /\ UNCHANGED <<doc, docPos>>

\* ChatEventType::Done
EvDone ==
    /\ CanFeed
    /\ Handled(DoneEv, DoneEventHandler(ctx))
    /\ UNCHANGED <<doc, docPos>>

EvertNext ==
    \/ EvText
    \/ EvFile
    \/ EvReplaceResponse
    \/ EvJson
    \/ EvError
    \/ EvDone

SpecEvert == EvertInit /\ [][EvertNext]_vars

-----------------------------------------------------------------------------
(* What a client of chat.rs sees, and what the upstream sent *)

\* the streaming response is over (the body has ended)
StreamOver == mode = "stream" /\ result = "stream" /\ pc = "finished"

\* the non-streaming response has been rendered
NonStreamOver == mode = "nonstream" /\ result = "json" /\ pc = "finished"

\* the upstream sent its events without a transport error and ended them
\* with Done
EndsWithDone ==
    /\ upstream # <<>>
    /\ Last(upstream) = DoneEv
    /\ \A i \in DOMAIN upstream : upstream[i] # StreamErr

\* the upstream sent a tool call
ToolCallReceived == \E i \in DOMAIN upstream : upstream[i].type = "Json"

\* positions of the emitted frames of each sort
RoleFrames == {i \in DOMAIN out : out[i].kind = "chunk" /\ out[i].role}
PayloadFrames ==
    {i \in DOMAIN out : out[i].kind = "chunk"
                        /\ (out[i].content.some \/ out[i].tool_calls.some)}
ContentFrames == {i \in DOMAIN out : out[i].kind = "chunk" /\ out[i].content.some}
FinishFrames == {i \in DOMAIN out : out[i].kind = "chunk" /\ out[i].finish_reason # "null"}
DoneFrames == {i \in DOMAIN out : out[i].kind = "done"}

\* the largest element of a non-empty set of positions
MaxOf(S) == CHOOSE i \in S : \A j \in S : j <= i

-----------------------------------------------------------------------------
(* The claims *)

\* C1: in a streaming response exactly one chunk has delta.role = "assistant",
\* and it comes before the first chunk carrying content or tool_calls.
C1_RoleChunkOnceAndFirst ==
    StreamOver =>
        /\ Cardinality(RoleFrames) = 1
        /\ \A i \in PayloadFrames : \E j \in RoleFrames : j < i

\* C2: every streaming response ends with [DONE]: when the response to an
\* upstream sequence (here one the upstream ended with Done) is over, [DONE] has
\* been emitted, exactly once, and it is the last frame.
C2_EndsWithDoneFrame ==
    (StreamOver /\ EndsWithDone) =>
        /\ Cardinality(DoneFrames) = 1
        /\ Last(out).kind = "done"

\* C3: in a streaming response to an upstream sequence that ends with Done,
\* exactly one chunk carries a non-null finish_reason.
C3_OneFinishReason ==
    (StreamOver /\ EndsWithDone) => Cardinality(FinishFrames) = 1

\* C4: in both modes the terminal finish_reason (of the last chunk that has
\* one, or of the response body) is "tool_calls" if and only if the upstream
\* sent a tool call before Done, whatever its position and also after a
\* ReplaceResponse; otherwise it is "stop".
C4_FinishReasonRule ==
    /\ (StreamOver /\ EndsWithDone /\ FinishFrames # {}) =>
          out[MaxOf(FinishFrames)].finish_reason =
             (IF ToolCallReceived THEN "tool_calls" ELSE "stop")
    /\ (NonStreamOver /\ EndsWithDone) =>
          response.finish_reason =
             (IF ToolCallReceived THEN "tool_calls" ELSE "stop")

\* the upstream sent Text events only, at least one, and then Done
TextsThenDone ==
    /\ Len(upstream) >= 2
    /\ Last(upstream) = DoneEv
    /\ \A i \in 1..(Len(upstream) - 1) : upstream[i].type = "Text"

\* C5: for Text events followed by Done the frames are the role chunk, one
\* content chunk per Text event with that event's text in arrival order, one
\* terminal chunk with finish_reason "stop", and [DONE].
C5_TextsOneChunkEach ==
    (StreamOver /\ TextsThenDone) =>
        LET n == Len(upstream) - 1
        IN /\ Len(out) = n + 3
           /\ out[1] = RoleChunk
           /\ \A i \in 1..n : out[i + 1] = ContentChunk(upstream[i].text)
           /\ out[n + 2].kind = "chunk"
           /\ out[n + 2].finish_reason = "stop"
           /\ out[n + 3] = DoneFrame

\* chunks whose delta carries text
TextFrames == {i \in ContentFrames : out[i].content.v # <<>>}

\* the upstream sent ReplaceResponse(r), Text(t), Done
ReplaceTextDone ==
    /\ Len(upstream) = 3
    /\ upstream[1].type = "ReplaceResponse"
    /\ upstream[2].type = "Text"
    /\ upstream[3] = DoneEv

\* C6: for ReplaceResponse(r), Text(t), Done the content is r+t in a single
\* merged content chunk, followed by a terminal chunk with finish_reason
\* "stop"; the Text is not dropped.
C6_ReplaceThenTextMerged ==
    (StreamOver /\ ReplaceTextDone) =>
        /\ Cardinality(TextFrames) = 1
        /\ \A i \in TextFrames :
              /\ out[i].content.v = upstream[1].text \o upstream[2].text
              /\ \E j \in FinishFrames : i < j /\ out[j].finish_reason = "stop"

\* the number of occurrences of p in s
RECURSIVE CountOcc(_, _)
CountOcc(s, p) ==
    LET i == Find(s, p)
    IN IF i = 0 THEN 0 ELSE 1 + CountOcc(SubSeq(s, i + Len(p), Len(s)), p)

\* the inline_refs of the File events the request has observed
FilesObserved == {upstream[i].ref : i \in {j \in DOMAIN upstream : upstream[j].type = "File"}}

\* occurrences of p in the emitted content (all chunks, or the response body)
RECURSIVE EmittedOcc(_, _)
EmittedOcc(frames, p) ==
    IF frames = <<>> THEN 0
    ELSE (IF Head(frames).content.some THEN CountOcc(Head(frames).content.v, p) ELSE 0)
         + EmittedOcc(Tail(frames), p)

\* occurrences of p in the texts the upstream sent
RECURSIVE UpstreamOcc(_, _)
UpstreamOcc(events, p) ==
    IF events = <<>> THEN 0
    ELSE CountOcc(Head(events).text, p) + UpstreamOcc(Tail(events), p)

\* C7: no emitted content contains "[ref]" for a ref whose File event the
\* request observed, whether the File came before or after the text, and no
\* placeholder occurrence is rewritten to "(url)" more than once (here for the
\* upstream sequences ended by Done).
C7_NoPlaceholderRemains ==
    \A ref \in FilesObserved :
        /\ (StreamOver /\ EndsWithDone) =>
              /\ EmittedOcc(out, ImgMarker(ref)) = 0
              /\ EmittedOcc(out, Replacement(ref)) <= UpstreamOcc(upstream, ImgMarker(ref))
        /\ (NonStreamOver /\ EndsWithDone) =>
              /\ ~Contains(response.content, ImgMarker(ref))
              /\ CountOcc(response.content, Replacement(ref))
                    <= UpstreamOcc(upstream, ImgMarker(ref))

\* prompt_tokens + completion_tokens == total_tokens
UsageAddsUp(u) == u.total_tokens = u.prompt_tokens + u.completion_tokens

\* C10: in both modes the final chunk (the last one with a finish_reason) or
\* the response body carries a usage object if and only if include_usage is
\* true, and then total_tokens = prompt_tokens + completion_tokens.
C10_UsageIffIncludeUsage ==
    /\ (StreamOver /\ EndsWithDone /\ FinishFrames # {}) =>
          LET u == out[MaxOf(FinishFrames)].usage
          IN (u.some <=> include_usage) /\ (u.some => UsageAddsUp(u))
    /\ NonStreamOver =>
          /\ response.usage.some <=> include_usage
          /\ response.usage.some => UsageAddsUp(response.usage)

-----------------------------------------------------------------------------
(* What the EventContext pipeline was given and what it gave back *)

\* the text has a "*Thinking...*" trigger
HasTrigger(d) == Find(d, StarMarker) # 0

\* the text before the trigger (A), and the lines after it
BeforeTrigger(d) == SubSeq(d, 1, Find(d, StarMarker) - 1)
LinesAfterTrigger(d) == Lines(SubSeq(d, Find(d, StarMarker) + Len(StarMarker), Len(d)))

\* the stripped "> " lines, each terminated by a newline
RECURSIVE StrippedThinking(_)
StrippedThinking(ls) ==
    IF ls = <<>> THEN <<>>
    ELSE (IF StartsWith(Head(ls), QuoteMark)
          THEN StripPrefix(Head(ls), QuoteMark) \o <<NL>> ELSE <<>>)
         \o StrippedThinking(Tail(ls))

\* the characters of a text
Chars(s) == {s[i] : i \in DOMAIN s}

\* the characters of the thinking lines, and of the content around them
ThinkingChars(d) == Chars(StrippedThinking(LinesAfterTrigger(d))) \ {NL}
ContentChars(d) == Chars(BeforeTrigger(d)) \cup Chars(Last(LinesAfterTrigger(d)))

\* only Text events so far, and the first one brought the whole trigger
TextsWithTrigger ==
    /\ HasTrigger(doc)
    /\ fed # <<>>
    /\ \A i \in DOMAIN fed : fed[i].type = "Text"
    /\ Len(fed[1].text) >= Find(doc, StarMarker) + Len(StarMarker) - 1

\* C8: for Text events fed through the Text handler and the thinking
\* sub-parser, the text of the "> " lines after the trigger is output as
\* reasoning only, never in a content output or in ctx.content, and text output
\* as content never appears in reasoning_content.
C8_ReasoningIsolation ==
    TextsWithTrigger =>
        /\ \A i \in DOMAIN directives :
              directives[i].kind = "text" =>
                 Chars(directives[i].text) \cap ThinkingChars(doc) = {}
        /\ \A i \in DOMAIN parsed :
              /\ parsed[i].content.some =>
                    Chars(parsed[i].content.v) \cap ThinkingChars(doc) = {}
              /\ parsed[i].reasoning.some =>
                    Chars(parsed[i].reasoning.v) \cap ContentChars(doc) = {}
        /\ Chars(ctx.content) \cap ThinkingChars(doc) = {}
        /\ Chars(ctx.reasoning_content) \cap ContentChars(doc) = {}

\* the content outputs of process_text_chunk, in order
RECURSIVE ContentOutputs(_)
ContentOutputs(ps) ==
    IF ps = <<>> THEN <<>>
    ELSE (IF Head(ps).content.some THEN <<Head(ps).content.v>> ELSE <<>>)
         \o ContentOutputs(Tail(ps))

\* the reasoning outputs of process_text_chunk, concatenated
RECURSIVE ReasoningOutput(_)
ReasoningOutput(ps) ==
    IF ps = <<>> THEN <<>>
    ELSE (IF Head(ps).reasoning.some THEN Head(ps).reasoning.v ELSE <<>>)
         \o ReasoningOutput(Tail(ps))

\* the whole text came as one Text event, and then Done
WholeTextThenDone == HasTrigger(doc) /\ fed = <<TextEv(doc), DoneEv>>

\* C9: for a Text A + "*Thinking...*" + newline-terminated "> " lines + Z the
\* outputs are content A, then the stripped thinking lines each terminated by
\* a newline as reasoning, then content Z, each once: two content outputs, A
\* and Z, and (in the output or in ctx.reasoning_content) that reasoning.
C9_ContentReasoningContent ==
    WholeTextThenDone =>
        /\ ContentOutputs(parsed) = <<BeforeTrigger(doc), Last(LinesAfterTrigger(doc))>>
        /\ \/ ReasoningOutput(parsed) = StrippedThinking(LinesAfterTrigger(doc))
           \/ ctx.reasoning_content = StrippedThinking(LinesAfterTrigger(doc))

-----------------------------------------------------------------------------
(* cache.rs: the URL cache and the base64 cache *)

\* The number of cache calls in one run, and the last clock reading.
MaxCacheCalls == 3
MaxClock == 2

\* URL_CACHE_TTL_SECONDS and URL_CACHE_SIZE_MB as the environment sets them.
CacheTtls == {1, 2}
CacheSizesMb == {1}

\* The values put into the caches: Poe attachment URLs (the second one has a
\* colon, as "https://..." has) and sizes in bytes.
CachePuts ==
    {[url |-> <<"p">>, size |-> 1024 * 1024], [url |-> <<"h", ":", "p">>, size |-> 512 * 1024]}

\* What sled does during one cache call: nothing wrong, or every open_tree,
\* get, insert or remove of the call returns Err, or the first remove of the
\* call returns Err and the later ones succeed.
SledFaults == {"none", "open_tree", "get", "insert", "remove", "remove_once"}

Digits == <<"0", "1", "2", "3", "4", "5", "6", "7", "8", "9">>

\* format!("{}", n) of an unsigned integer
RECURSIVE ToDec(_)
ToDec(n) ==
    IF n < 10 THEN <<Digits[n + 1]>>
    ELSE ToDec(n \div 10) \o <<Digits[(n % 10) + 1]>>

DigitSet == {Digits[i] : i \in 1..10}
IsDigit(c) == c \in DigitSet
DigitVal(c) ==
    CASE c = "0" -> 0 [] c = "1" -> 1 [] c = "2" -> 2 [] c = "3" -> 3 [] c = "4" -> 4
      [] c = "5" -> 5 [] c = "6" -> 6 [] c = "7" -> 7 [] c = "8" -> 8 [] OTHER -> 9

\* str::parse::<u64>: is_ok() and the value
ParseOk(s) == s # <<>> /\ \A i \in 1..Len(s) : IsDigit(s[i])
RECURSIVE ParseFrom(_, _, _)
ParseFrom(s, i, acc) ==
    IF i > Len(s) THEN acc ELSE ParseFrom(s, i + 1, acc * 10 + DigitVal(s[i]))
ParseVal(s) == ParseFrom(s, 1, 0)

\* str::split(':'): the parts of s from index i on, the current part
\* starting at index start
RECURSIVE SplitFrom(_, _, _)
SplitFrom(s, i, start) ==
    IF i > Len(s) THEN <<SubSeq(s, start, Len(s))>>
    ELSE IF s[i] = ":"
    THEN <<SubSeq(s, start, i - 1)>> \o SplitFrom(s, i + 1, i + 1)
    ELSE SplitFrom(s, i + 1, start)
SplitColon(s) == SplitFrom(s, 1, 1)

\* [&str]::join(":")
RECURSIVE JoinColon(_)
JoinColon(parts) ==
    IF parts = <<>> THEN <<>>
    ELSE IF Len(parts) = 1 THEN parts[1]
    ELSE parts[1] \o <<":">> \o JoinColon(Tail(parts))

\* format!("{}:{}:{}", expires_secs, poe_url, size_bytes)
store_value(expires_secs, poe_url, size_bytes) ==
    ToDec(expires_secs) \o <<":">> \o poe_url \o <<":">> \o ToDec(size_bytes)

\* The entries check_and_control_cache_size counts: three parts or more, the
\* first and the last a number.
Counted(parts) ==
    /\ Len(parts) >= 3
    /\ ParseOk(parts[1])
    /\ ParseOk(Last(parts))

EntryOf(tree, key, parts) ==
    [expires |-> ParseVal(parts[1]), tree |-> tree, key |-> key,
     size |-> ParseVal(Last(parts))]

\* tree.iter(): the entries of one tree, in key order
RECURSIVE TreeEntries(_, _, _)
TreeEntries(db, tree, keys) ==
    IF keys = <<>> THEN <<>>
    ELSE (IF db[tree][Head(keys)] # Absent /\ Counted(SplitColon(db[tree][Head(keys)]))
          THEN <<EntryOf(tree, Head(keys), SplitColon(db[tree][Head(keys)]))>>
          ELSE <<>>)
         \o TreeEntries(db, tree, Tail(keys))

RECURSIVE SumSizes(_)
SumSizes(entries) ==
    IF entries = <<>> THEN 0 ELSE Head(entries).size + SumSizes(Tail(entries))

\* Vec::sort_by_key on the expiry: a stable sort
RECURSIVE InsertByExpires(_, _)
InsertByExpires(sorted, e) ==
    IF sorted = <<>> THEN <<e>>
    ELSE IF e.expires < Head(sorted).expires THEN <<e>> \o sorted
    ELSE <<Head(sorted)>> \o InsertByExpires(Tail(sorted), e)

\* the deletion loop run over the entries as collected, without the sort
SortByExpiresLeftOut(entries) == entries

RECURSIVE SortByExpires(_)
SortByExpires(entries) ==
    IF entries = <<>> THEN <<>>
    ELSE InsertByExpires(SortByExpires(SubSeq(entries, 1, Len(entries) - 1)),
                         Last(entries))

\* usize::saturating_sub
saturating_sub(a, b) == IF a > b THEN a - b ELSE 0

\* the deletion loop of check_and_control_cache_size
RECURSIVE EvictLoop(_, _, _, _)
EvictLoop(db, entries, bytes_to_free, fault) ==
    IF entries = <<>> \/ bytes_to_free = 0 THEN db
    ELSE IF fault \in {"open_tree", "remove"}
    THEN EvictLoop(db, Tail(entries), bytes_to_free, fault)
    ELSE IF fault = "remove_once"
    THEN EvictLoop(db, Tail(entries), bytes_to_free, "none")
    ELSE EvictLoop([db EXCEPT ![Head(entries).tree][Head(entries).key] = Absent],
                   Tail(entries),
                   saturating_sub(bytes_to_free, Head(entries).size), fault)

ControlSize(db, entries, current_size, max_size_bytes, fault) ==
    IF current_size > max_size_bytes
    THEN EvictLoop(db, SortByExpires(entries),
                   (current_size - max_size_bytes) + (max_size_bytes \div 10), fault)
    ELSE db

CollectEntries(db, fault) ==
    IF fault = "open_tree" THEN <<>>
    ELSE TreeEntries(db, "urls", UrlKeyOrder) \o TreeEntries(db, "base64", HashKeyOrder)

CollectedSize(db, entries, max_size_bytes, fault) ==
    ControlSize(db, entries, SumSizes(entries), max_size_bytes, fault)

\* fn check_and_control_cache_size(): the database it leaves
check_and_control_cache_size(db, size_mb, fault) ==
    CollectedSize(db, CollectEntries(db, fault), size_mb * 1024 * 1024, fault)

\* tree.insert(key, store_value), when the tree opens and the insert succeeds
Insert(db, tree, key, value, fault) ==
    IF fault \in {"open_tree", "insert"} THEN db
    ELSE [db EXCEPT ![tree][key] = value]

\* pub fn cache_url(original_url, poe_url, size_bytes): the database it leaves
cache_url(db, now, ttl, size_mb, key, poe_url, size_bytes, fault) ==
    check_and_control_cache_size(
        Insert(db, "urls", key, store_value(now + ttl, poe_url, size_bytes), fault),
        size_mb, fault)

\* pub fn cache_base64(hash, poe_url, size_bytes): the database it leaves
cache_base64(db, now, ttl, size_mb, key, poe_url, size_bytes, fault) ==
    Insert(db, "base64", key, store_value(now + ttl, poe_url, size_bytes), fault)

\* refresh_url_cache_ttl and refresh_base64_cache_ttl
refresh_cache_ttl(db, tree, now, ttl, size_mb, key, poe_url, size_bytes, fault) ==
    IF tree = "urls"
    THEN cache_url(db, now, ttl, size_mb, key, poe_url, size_bytes, fault)
    ELSE cache_base64(db, now, ttl, size_mb, key, poe_url, size_bytes, fault)

CacheHit(poe_url, size) == [hit |-> TRUE, url |-> poe_url, size |-> size]

\* get_cached_url with the expiry test written expires_secs >= now_secs
GetStoredAtExpiry(db, tree, now, ttl, size_mb, key, parts, fault) ==
    IF Len(parts) >= 3 /\ ParseOk(parts[1])
    THEN IF ParseVal(parts[1]) >= now
         THEN IF ParseOk(Last(parts))
              THEN [db |-> refresh_cache_ttl(db, tree, now, ttl, size_mb, key,
                                             JoinColon(SubSeq(parts, 2, Len(parts) - 1)),
                                             ParseVal(Last(parts)), fault),
                    result |-> CacheHit(JoinColon(SubSeq(parts, 2, Len(parts) - 1)),
                                        ParseVal(Last(parts)))]
              ELSE [db |-> db, result |-> CacheMiss]
         ELSE [db |-> IF fault \in {"open_tree", "remove", "remove_once"} THEN db
                      ELSE [db EXCEPT ![tree][key] = Absent],
               result |-> CacheMiss]
    ELSE [db |-> db, result |-> CacheMiss]

\* The match arm Ok(Some(value_bytes)) of get_cached_url and get_cached_base64,
\* given the parts of the stored value.
GetStored(db, tree, now, ttl, size_mb, key, parts, fault) ==
    IF Len(parts) >= 3 /\ ParseOk(parts[1])
    THEN IF ParseVal(parts[1]) > now
         THEN IF ParseOk(Last(parts))
              THEN [db |-> refresh_cache_ttl(db, tree, now, ttl, size_mb, key,
                                             JoinColon(SubSeq(parts, 2, Len(parts) - 1)),
                                             ParseVal(Last(parts)), fault),
                    result |-> CacheHit(JoinColon(SubSeq(parts, 2, Len(parts) - 1)),
                                        ParseVal(Last(parts)))]
              ELSE [db |-> db, result |-> CacheMiss]
         ELSE [db |-> IF fault \in {"open_tree", "remove", "remove_once"} THEN db
                      ELSE [db EXCEPT ![tree][key] = Absent],
               result |-> CacheMiss]
    ELSE [db |-> db, result |-> CacheMiss]

\* get_cached_url with unwrap_or_default() on the result of sled
get_cachedOrDefault(db, tree, now, ttl, size_mb, key, fault) ==
    IF fault \in {"open_tree", "get"} THEN [db |-> db, result |-> CacheHit(<<>>, 0)]
    ELSE IF db[tree][key] = Absent THEN [db |-> db, result |-> CacheMiss]
    ELSE GetStored(db, tree, now, ttl, size_mb, key, SplitColon(db[tree][key]), fault)

\* get_cached_url (tree "urls") and get_cached_base64 (tree "base64"): the
\* database it leaves and what it returns
get_cached(db, tree, now, ttl, size_mb, key, fault) ==
    IF fault \in {"open_tree", "get"} THEN [db |-> db, result |-> CacheMiss]
    ELSE IF db[tree][key] = Absent THEN [db |-> db, result |-> CacheMiss]
    ELSE GetStored(db, tree, now, ttl, size_mb, key, SplitColon(db[tree][key]), fault)

get_cached_url(db, now, ttl, size_mb, key, fault) ==
    get_cached(db, "urls", now, ttl, size_mb, key, fault)

get_cached_base64(db, now, ttl, size_mb, key, fault) ==
    get_cached(db, "base64", now, ttl, size_mb, key, fault)

\* The request is not in a chat handler and feeds no EventHandlerManager.
EvertUnused ==
    /\ ctx = EventContext0
    /\ doc = <<>>
    /\ docPos = 0
    /\ fed = <<>>
    /\ directives = <<>>
    /\ parsed = <<>>

CacheInit ==
    /\ ChatIdle
    /\ EvertUnused
    /\ clock = 0
    /\ url_cache_ttl \in CacheTtls
    /\ url_cache_size_mb \in CacheSizesMb
    /\ sled = EmptySled
    /\ cache_calls = 0
    /\ lastOp = NoCacheOp
    /\ RestIdleExcept({"cache"})

CacheFrame ==
    /\ UNCHANGED <<chatVars, evertVars, clock, url_cache_ttl, url_cache_size_mb>>
    /\ RestUnchangedExcept({"cache"})

\* The size of both caches together, as check_and_control_cache_size sums it.
TotalSize(db) == SumSizes(CollectEntries(db, "none"))

\* cache_url wrote the entry and its maintenance pass found the caches over
\* max_size_bytes.
UrlWriteOver(db, now, ttl, size_mb, key, poe_url, size_bytes, fault) ==
    SumSizes(CollectEntries(
        Insert(db, "urls", key, store_value(now + ttl, poe_url, size_bytes), fault),
        fault)) > size_mb * 1024 * 1024

\* The record of a call: op, arguments, the sled fault during it, the clock,
\* what it returned, and whether a maintenance pass ran in it and found the
\* caches over max_size_bytes.
PutOp(tree, key, poe_url, size_bytes, fault, over) ==
    [op |-> "put", tree |-> tree, key |-> key, url |-> poe_url, size |-> size_bytes,
     fault |-> fault, time |-> clock, result |-> CacheMiss, over |-> over]

GetOp(tree, key, fault, returned, over) ==
    [op |-> "get", tree |-> tree, key |-> key, url |-> <<>>, size |-> 0,
     fault |-> fault, time |-> clock, result |-> returned, over |-> over]

\* a caller runs cache_url
CacheUrl ==
    /\ cache_calls < MaxCacheCalls
    /\ \E key \in UrlKeys, put \in CachePuts,
          fault \in {"none", "open_tree", "insert", "remove", "remove_once"} :
          /\ sled' = cache_url(sled, clock, url_cache_ttl, url_cache_size_mb,
                               key, put.url, put.size, fault)
          /\ lastOp' = PutOp("urls", key, put.url, put.size, fault,
                             UrlWriteOver(sled, clock, url_cache_ttl, url_cache_size_mb,
                                          key, put.url, put.size, fault))
    /\ cache_calls' = cache_calls + 1
    /\ CacheFrame

\* a caller runs cache_base64
CacheBase64 ==
    /\ cache_calls < MaxCacheCalls
    /\ \E key \in HashKeys, put \in CachePuts,
          fault \in {"none", "open_tree", "insert"} :
          /\ sled' = cache_base64(sled, clock, url_cache_ttl, url_cache_size_mb,
                                  key, put.url, put.size, fault)
          /\ lastOp' = PutOp("base64", key, put.url, put.size, fault, FALSE)
    /\ cache_calls' = cache_calls + 1
    /\ CacheFrame

GetDone(tree, key, fault, got) ==
    /\ sled' = got.db
    /\ lastOp' = GetOp(tree, key, fault, got.result,
                       /\ tree = "urls"
                       /\ got.result.hit
                       /\ UrlWriteOver(sled, clock, url_cache_ttl, url_cache_size_mb,
                                       key, got.result.url, got.result.size, fault))

\* a caller runs get_cached_url
GetCachedUrl ==
    /\ cache_calls < MaxCacheCalls
    /\ \E key \in UrlKeys, fault \in SledFaults :
          GetDone("urls", key, fault,
                  get_cached_url(sled, clock, url_cache_ttl, url_cache_size_mb, key, fault))
    /\ cache_calls' = cache_calls + 1
    /\ CacheFrame

\* a caller runs get_cached_base64
GetCachedBase64 ==
    /\ cache_calls < MaxCacheCalls
    /\ \E key \in HashKeys, fault \in SledFaults :
          GetDone("base64", key, fault,
                  get_cached_base64(sled, clock, url_cache_ttl, url_cache_size_mb, key, fault))
    /\ cache_calls' = cache_calls + 1
    /\ CacheFrame

\* a second passes between two cache calls
Tick ==
    /\ clock < MaxClock
    /\ clock' = clock + 1
    /\ UNCHANGED <<chatVars, evertVars, url_cache_ttl, url_cache_size_mb,
                   sled, cache_calls, lastOp>>
    /\ RestUnchangedExcept({"cache"})

CacheNext == CacheUrl \/ CacheBase64 \/ GetCachedUrl \/ GetCachedBase64 \/ Tick

SpecCache == CacheInit /\ [][CacheNext]_vars

-----------------------------------------------------------------------------
(* Claims about the caches *)

\* The step is a get of the entry the last call put, and sled fails in neither.
GetAfterPut ==
    /\ lastOp.op = "put"
    /\ lastOp.fault = "none"
    /\ lastOp'.op = "get"
    /\ lastOp'.fault = "none"
    /\ lastOp'.tree = lastOp.tree
    /\ lastOp'.key = lastOp.key

\* The get of this step returns what the put stored.
ReturnsPut == lastOp'.result = CacheHit(lastOp.url, lastOp.size)

\* The get of this step left the entry with expires_at = now + TTL.
Reinserted ==
    sled'[lastOp.tree][lastOp.key]
        = store_value(clock + url_cache_ttl, lastOp.url, lastOp.size)

\* The get of this step misses and leaves no entry.
MissesAndRemoves ==
    /\ ~lastOp'.result.hit
    /\ sled'[lastOp.tree][lastOp.key] = Absent

\* The step is a second get of a key whose get, served by sled, missed.
GetAfterMiss ==
    /\ lastOp.op = "get"
    /\ lastOp.fault = "none"
    /\ ~lastOp.result.hit
    /\ lastOp'.op = "get"
    /\ cache_calls' = cache_calls + 1
    /\ lastOp'.tree = lastOp.tree
    /\ lastOp'.key = lastOp.key

\* C11 (as the spec states it): in either cache, with sled serving the calls,
\* put(k,u,s) followed by get(k) strictly before expiry returns (u,s) and
\* re-inserts the entry with expires_at = now + TTL; a get at now >= expires_at
\* misses and removes the entry, and a later get misses too.
C11_PutGetAsStated ==
    [][/\ GetAfterPut /\ clock < lastOp.time + url_cache_ttl
          => ReturnsPut /\ Reinserted
       /\ GetAfterPut /\ clock >= lastOp.time + url_cache_ttl => MissesAndRemoves
       /\ GetAfterMiss => ~lastOp'.result.hit]_vars

\* C11 (amended): the same, provided the maintenance pass that ends a write to
\* the urls cache did not find the two caches over max_bytes: the put returns
\* (u,s) at the get when its pass did not, and the get re-inserts with
\* expires_at = now + TTL when its own pass did not.
C11_PutGetRoundTrip ==
    [][/\ GetAfterPut /\ clock < lastOp.time + url_cache_ttl /\ ~lastOp.over
          => ReturnsPut /\ (~lastOp'.over => Reinserted)
       /\ GetAfterPut /\ clock >= lastOp.time + url_cache_ttl => MissesAndRemoves
       /\ GetAfterMiss => ~lastOp'.result.hit]_vars

\* A get, a second or more after the put, hit and renewed the entry.
C11_Witness ==
    /\ lastOp.op = "get"
    /\ lastOp.fault = "none"
    /\ lastOp.result.hit
    /\ lastOp.time > 0
    /\ sled[lastOp.tree][lastOp.key]
         = store_value(lastOp.time + url_cache_ttl, lastOp.result.url, lastOp.result.size)

\* The step runs a maintenance pass: a write to the urls cache by cache_url,
\* or by get_cached_url renewing the entry it returns.
RunsPass ==
    /\ cache_calls' = cache_calls + 1
    /\ lastOp'.tree = "urls"
    /\ lastOp'.op = "put" \/ lastOp'.result.hit

\* The database as the pass of this step finds it, the write done.
PassStart ==
    IF lastOp'.op = "put"
    THEN Insert(sled, "urls", lastOp'.key,
                store_value(clock + url_cache_ttl, lastOp'.url, lastOp'.size),
                lastOp'.fault)
    ELSE Insert(sled, "urls", lastOp'.key,
                store_value(clock + url_cache_ttl, lastOp'.result.url,
                            lastOp'.result.size),
                lastOp'.fault)

\* The positions, among the entries the pass collected, of those it evicted.
EvictedAt(entries) ==
    {i \in 1..Len(entries) : sled'[entries[i].tree][entries[i].key] = Absent}

RECURSIVE SizeOf(_, _)
SizeOf(entries, positions) ==
    IF positions = {} THEN 0
    ELSE entries[CHOOSE i \in positions : TRUE].size
         + SizeOf(entries, positions \ {CHOOSE i \in positions : TRUE})

\* The pass evicted in ascending order of expires_at and stopped as soon as
\* enough was freed: no surviving entry, those of failed aside, expires before
\* an evicted one, and without the last entry evicted the bytes freed were not
\* enough, enough being the excess over max_bytes and a tenth of max_bytes.
EvictedInOrder(entries, evicted, failed, total, max_bytes) ==
    /\ \A e \in evicted, kept \in (1..Len(entries)) \ (evicted \cup failed) :
          ~(entries[kept].expires < entries[e].expires)
    /\ evicted # {}
       => /\ total > max_bytes
          /\ \E e \in evicted :
                /\ \A f \in evicted : entries[f].expires <= entries[e].expires
                /\ SizeOf(entries, evicted \ {e})
                      < (total - max_bytes) + (max_bytes \div 10)

\* The pass changed nothing but the entries it evicted.
OnlyEvicted(start) ==
    \A tree \in {"urls", "base64"} : \A key \in DOMAIN start[tree] :
        sled'[tree][key] \in {start[tree][key], Absent}

\* The entries whose tree.remove may have returned Err in this step: none, or
\* with a single failing remove one entry that expires no later than any other.
FailedRemovals(entries) ==
    IF lastOp'.fault = "remove_once"
    THEN {{}} \cup {{f} : f \in {g \in 1..Len(entries) :
                                   \A h \in 1..Len(entries) :
                                       entries[g].expires <= entries[h].expires}}
    ELSE {{}}

PassInOrder(entries) ==
    \A evicted \in {EvictedAt(entries)}, total \in {SumSizes(entries)} :
        EvictedInOrder(entries, evicted, {}, total, url_cache_size_mb * 1024 * 1024)

PassInOrderButFailed(entries) ==
    \A evicted \in {EvictedAt(entries)}, total \in {SumSizes(entries)} :
        \E failed \in FailedRemovals(entries) :
            EvictedInOrder(entries, evicted, failed, total,
                           url_cache_size_mb * 1024 * 1024)

\* C26 as stated: after a maintenance pass no surviving entry of urls or base64
\* has an expires_at strictly smaller than that of an entry the pass evicted,
\* and the pass stops evicting as soon as enough bytes are freed.
C26_EvictionOrderAsStated ==
    [][RunsPass
       => \A start \in {PassStart} :
             /\ \A entries \in {CollectEntries(start, "none")} :
                   PassInOrder(entries)
             /\ OnlyEvicted(start)]_vars

\* C26: after a maintenance pass no surviving entry of urls or base64, an
\* entry whose removal the pass tried and failed aside, has an expires_at
\* strictly smaller than that of an entry the pass evicted, and the pass stops
\* evicting as soon as enough bytes are freed.
C26_EvictionOrder ==
    [][RunsPass
       => \A start \in {PassStart} :
             /\ \A entries \in {CollectEntries(start, "none")} :
                   PassInOrderButFailed(entries)
             /\ OnlyEvicted(start)]_vars

\* A pass found the caches over max_bytes, failed to remove the entry that
\* expires first, and evicted the entry just written, which expires later.
C26_Witness ==
    /\ lastOp.op = "put"
    /\ lastOp.tree = "urls"
    /\ lastOp.fault = "remove_once"
    /\ lastOp.over
    /\ sled["urls"][lastOp.key] = Absent
    /\ \E i \in 1..Len(CollectEntries(sled, "none")) :
          CollectEntries(sled, "none")[i].expires < lastOp.time + url_cache_ttl

\* max_bytes
MaxBytes == url_cache_size_mb * 1024 * 1024

\* C12: after any put into either cache that sled serves, the sizes of the
\* entries of both caches sum to at most max_bytes, and to at most
\* 0.9 * max_bytes when the sum exceeded max_bytes as maintenance ran.
C12_EvictionBudget ==
    lastOp.op = "put" /\ lastOp.fault = "none"
    => /\ TotalSize(sled) <= MaxBytes
       /\ lastOp.over => 10 * TotalSize(sled) <= 9 * MaxBytes

-----------------------------------------------------------------------------
(* handlers/chat.rs chat_completions, poe_client.rs create_chat_request *)

\* The number of messages of a request, and of entries of config.models.
MaxMessages == 3
MaxModels == 2

ToolCall1 == [id |-> "call_1", name |-> "get_weather"]
ToolCall2 == [id |-> "call_2", name |-> "search"]
\* a later call that reuses the id of ToolCall1 for another function
ToolCall1Again == [id |-> "call_1", name |-> "search"]

\* A Message: role, tool_calls, tool_call_id, and the id extract_tool_call_id
\* finds in the content (NoId when it finds none).
UserMessage ==
    [role |-> "user", tool_calls |-> None, tool_call_id |-> NoId, content_id |-> NoId]
AssistantMessage(calls) ==
    [role |-> "assistant", tool_calls |-> calls, tool_call_id |-> NoId,
     content_id |-> NoId]
ToolMessage(id, in_content) ==
    [role |-> "tool", tool_calls |-> None, tool_call_id |-> id, content_id |-> in_content]

MessageKinds ==
    {UserMessage,
     AssistantMessage(None),
     AssistantMessage(Some(<<ToolCall1>>)),
     AssistantMessage(Some(<<ToolCall1, ToolCall2>>)),
     AssistantMessage(Some(<<ToolCall1Again>>)),
     ToolMessage("call_1", NoId),
     ToolMessage("call_2", NoId),
     ToolMessage(NoId, "call_1"),
     ToolMessage(NoId, NoId)}

MessageLists == UNION {[1..n -> MessageKinds] : n \in 1..MaxMessages}

\* messages.iter().filter(|m| m.role == "tool").count()
ToolMessageCount(messages) ==
    Cardinality({i \in DOMAIN messages : messages[i].role = "tool"})

\* the tool_calls of the assistant messages, in message order
RECURSIVE AssistantCalls(_)
AssistantCalls(messages) ==
    IF messages = <<>> THEN <<>>
    ELSE (IF Head(messages).role = "assistant" /\ Head(messages).tool_calls.some
          THEN Head(messages).tool_calls.v ELSE <<>>)
         \o AssistantCalls(Tail(messages))

\* accumulated_tool_calls: a call is pushed when seen_tool_call_ids takes its id
RECURSIVE AccumulatedCalls(_, _)
AccumulatedCalls(calls, seen) ==
    IF calls = <<>> THEN <<>>
    ELSE IF Head(calls).id \in seen THEN AccumulatedCalls(Tail(calls), seen)
    ELSE <<Head(calls)>> \o AccumulatedCalls(Tail(calls), seen \cup {Head(calls).id})

\* tool_call_id_to_name.get(id), "unknown" when the id is not mapped
ToolName(calls, id) ==
    IF \E i \in DOMAIN calls : calls[i].id = id
    THEN calls[CHOOSE i \in DOMAIN calls :
                  /\ calls[i].id = id
                  /\ \A j \in DOMAIN calls : calls[j].id = id => j <= i].name
    ELSE "unknown"

\* the tool_call_id field, else the id extracted from the content
DerivedId(msg) == IF msg.tool_call_id # NoId THEN msg.tool_call_id ELSE msg.content_id

\* the ChatToolResult of every tool message that yields an id
RECURSIVE ToolResults(_, _)
ToolResults(messages, calls) ==
    IF messages = <<>> THEN <<>>
    ELSE (IF Head(messages).role = "tool" /\ DerivedId(Head(messages)) # NoId
          THEN <<[tool_call_id |-> DerivedId(Head(messages)),
                  name |-> ToolName(calls, DerivedId(Head(messages)))]>>
          ELSE <<>>)
         \o ToolResults(Tail(messages), calls)

OptionOf(list) == IF list = <<>> THEN None ELSE Some(list)

ToolFields(messages, calls) ==
    [tool_calls |-> OptionOf(AccumulatedCalls(calls, {})),
     tool_results |-> OptionOf(ToolResults(messages, calls))]

\* pub async fn create_chat_request: the tool_calls and tool_results of the
\* ChatRequest it returns; it returns one for every message list
create_chat_request(messages) ==
    IF ToolMessageCount(messages) = 0 THEN NoChatRequestObj
    ELSE ToolFields(messages, AssistantCalls(messages))

ValidIds(calls) == {calls[i].id : i \in DOMAIN calls}

\* pub fn validate_tool_sequence(messages) -> Result<(), String>; no function
\* of the repository calls it
validate_tool_sequence(messages) ==
    IF ToolMessageCount(messages) = 0 THEN "Ok"
    ELSE IF ValidIds(AssistantCalls(messages)) = {} THEN "Err"
    ELSE IF \E i \in DOMAIN messages :
               /\ messages[i].role = "tool"
               /\ DerivedId(messages[i]) \notin ValidIds(AssistantCalls(messages))
    THEN "Err"
    ELSE "Ok"

\* The model ids of requests and of models.yaml.
ModelIds == {<<"a", "1">>, <<"A", "1">>, <<"b", "1">>, <<"B", "1">>}

LowerChar(c) == CASE c = "A" -> "a" [] c = "B" -> "b" [] OTHER -> c

\* str::to_lowercase
to_lowercase(str) == [i \in 1..Len(str) |-> LowerChar(str[i])]

\* An entry of config.models: the key and the ModelConfig's mapping.
ModelEntries ==
    {[name |-> n, mapping |-> m] :
        n \in ModelIds, m \in {None} \cup {Some(y) : y \in ModelIds}}

\* The HashMaps m with one more key.
WithEntry(m) == {m \cup {e} : e \in {x \in ModelEntries : \A y \in m : y.name # x.name}}

\* The HashMaps of at most n entries.
RECURSIVE ModelMaps(_)
ModelMaps(n) ==
    IF n = 0 THEN {{}}
    ELSE ModelMaps(n - 1) \cup UNION {WithEntry(m) : m \in ModelMaps(n - 1)}

Configs ==
    {[enable |-> en, models |-> m] :
        en \in {NoBool, SomeBool(FALSE), SomeBool(TRUE)}, m \in ModelMaps(MaxModels)}

\* find with the mapping compared to the requested model as written
MappingEntriesExact(cfg, requested_model) ==
    {e \in cfg.models :
        /\ e.mapping.some
        /\ to_lowercase(e.mapping.v) = requested_model}

\* config.models.iter().find(..): the entries whose mapping is the requested
\* model, compared in lower case; find returns the first one the HashMap's
\* iteration yields, which can be any of them.
MappingEntries(cfg, requested_model) ==
    {e \in cfg.models :
        /\ e.mapping.some
        /\ to_lowercase(e.mapping.v) = to_lowercase(requested_model)}

\* chat_completions: let (display_model, original_model) = ...
ResolveModel ==
    /\ req_pc = "received"
    /\ display_model' = chat_request.model
    /\ IF config.enable.some /\ config.enable.v
          /\ MappingEntries(config, chat_request.model) # {}
       THEN \E e \in MappingEntries(config, chat_request.model) :
               original_model' = e.name
       ELSE original_model' = chat_request.model
    /\ req_pc' = "resolved"
    /\ UNCHANGED <<chatVars, evertVars, chat_request, config, chat_request_obj>>
    /\ RestUnchangedExcept({"request"})

\* chat_completions: create_chat_request, then client.stream_request
CreateChatRequest ==
    /\ req_pc = "resolved"
    /\ chat_request_obj' = create_chat_request(chat_request.messages)
    /\ req_pc' = "sent"
    /\ UNCHANGED <<chatVars, evertVars, chat_request, config,
                   original_model, display_model>>
    /\ RestUnchangedExcept({"request"})

RequestNext == ResolveModel \/ CreateChatRequest

RequestReceived ==
    /\ ChatIdle
    /\ EvertUnused
    /\ RestIdleExcept({"request"})
    /\ req_pc = "received"
    /\ original_model = <<>>
    /\ display_model = <<>>
    /\ chat_request_obj = NoChatRequestObj

\* Requests of every message list, under a disabled configuration.
ToolsInit ==
    /\ RequestReceived
    /\ config = NoConfig
    /\ \E messages \in MessageLists :
          chat_request = [model |-> <<"a", "1">>, messages |-> messages]

SpecTools == ToolsInit /\ [][RequestNext]_vars

\* Requests of every model id, under every configuration.
RoutingInit ==
    /\ RequestReceived
    /\ config \in Configs
    /\ \E model \in ModelIds :
          chat_request = [model |-> model, messages |-> <<UserMessage>>]

SpecRouting == RoutingInit /\ [][RequestNext]_vars

-----------------------------------------------------------------------------
(* Claims about the request assembly *)

\* The ids the assistant messages before position i produced.
EarlierIds(messages, i) == ValidIds(AssistantCalls(SubSeq(messages, 1, i - 1)))

\* Some tool message references an id no earlier assistant message produced.
BadToolReference(messages) ==
    \E i \in DOMAIN messages :
        /\ messages[i].role = "tool"
        /\ DerivedId(messages[i]) # NoId
        /\ DerivedId(messages[i]) \notin EarlierIds(messages, i)

\* C13: once the request is handled, it was rejected before the upstream if and
\* only if some tool message references a tool_call_id that no earlier
\* assistant message produced.
C13_ToolResultIntegrity ==
    req_pc \in {"sent", "rejected"}
    => (req_pc = "rejected" <=> BadToolReference(chat_request.messages))

\* Two model ids that differ at most in the case of their letters.
SameLetter(c, e) ==
    \/ c = e
    \/ {c, e} = {"a", "A"}
    \/ {c, e} = {"b", "B"}
SameIgnoringCase(x, y) ==
    /\ Len(x) = Len(y)
    /\ \A i \in 1..Len(x) : SameLetter(x[i], y[i])

\* models[X].mapping = Y for the requested id Y, compared case-insensitively
MapsToRequested(e) ==
    e.mapping.some /\ SameIgnoringCase(e.mapping.v, chat_request.model)

ConfigEnabled == config.enable = SomeBool(TRUE)

Resolved == req_pc \in {"resolved", "sent"}

\* C14 (as the spec states it): with config enabled, for every entry X whose
\* mapping Y is the requested model, compared case-insensitively, the request
\* goes upstream as X and the response's model reads Y; with config disabled or
\* no such entry, both are the requested id.
C14_MappingAsStated ==
    Resolved
    => IF ConfigEnabled /\ \E e \in config.models : MapsToRequested(e)
       THEN \A e \in config.models :
               MapsToRequested(e)
               => original_model = e.name /\ display_model = e.mapping.v
       ELSE original_model = chat_request.model /\ display_model = chat_request.model

\* C14 (amended): with config enabled and some entry whose mapping is the
\* requested model, compared case-insensitively, the request goes upstream
\* under the key of such an entry and the response's model reads the id as the
\* request wrote it; with config disabled or no such entry, both are the
\* requested id.
C14_ModelMapping ==
    Resolved
    => /\ display_model = chat_request.model
       /\ IF ConfigEnabled /\ \E e \in config.models : MapsToRequested(e)
          THEN \E e \in config.models : MapsToRequested(e) /\ original_model = e.name
          ELSE original_model = chat_request.model

\* A request made under an alias written in another case went upstream under
\* the key of the entry.
C14_Witness ==
    /\ req_pc = "sent"
    /\ ConfigEnabled
    /\ original_model # chat_request.model
    /\ \E e \in config.models :
          /\ MapsToRequested(e)
          /\ e.mapping.v # chat_request.model
          /\ original_model = e.name

-----------------------------------------------------------------------------
(* utils.rs convert_poe_error_to_openai, and the Error arm of the first
   events in handlers/chat.rs *)

\* Error texts of the upstream.
InternalServerError ==
    <<"I", "n", "t", "e", "r", "n", "a", "l", " ", "s", "e", "r", "v", "e", "r", " ",
      "e", "r", "r", "o", "r">>
RateLimit ==
    <<"r", "a", "t", "e", " ", "l", "i", "m", "i", "t">>
InvalidToken ==
    <<"I", "n", "v", "a", "l", "i", "d", " ", "t", "o", "k", "e", "n">>
Unauthorized ==
    <<"U", "n", "a", "u", "t", "h", "o", "r", "i", "z", "e", "d">>
BotDoesNotExist ==
    <<"B", "o", "t", " ", "d", "o", "e", "s", " ", "n", "o", "t", " ", "e", "x", "i",
      "s", "t">>
MorePoints ==
    <<"T", "h", "i", "s", " ", "b", "o", "t", " ", "n", "e", "e", "d", "s", " ", "m",
      "o", "r", "e", " ", "p", "o", "i", "n", "t", "s", " ", "t", "o", " ", "a", "n",
      "s", "w", "e", "r", " ", "y", "o", "u", "r", " ", "r", "e", "q", "u", "e", "s",
      "t", ".">>
OtherError ==
    <<"C", "o", "n", "n", "e", "c", "t", "i", "o", "n", " ", "r", "e", "s", "e", "t">>

ErrorPhrases ==
    {<<>>, InternalServerError, RateLimit, InvalidToken, Unauthorized, BotDoesNotExist,
     MorePoints, OtherError}

\* The texts of an Error event: one phrase, or two with a space between.
ErrorTexts ==
    ErrorPhrases \cup {p \o <<" ">> \o q : p \in ErrorPhrases, q \in ErrorPhrases}

HttpError(status, error_type, code) == [status |-> status, type |-> error_type, code |-> code]

\* pub fn convert_poe_error_to_openai(error_text, allow_retry): the status and
\* the type and code of the OpenAIError
convert_poe_error_to_openai(error_text, allow_retry) ==
    IF Contains(error_text, InternalServerError)
    THEN HttpError(500, "internal_error", "internal_error")
    ELSE IF Contains(error_text, RateLimit)
    THEN HttpError(429, "rate_limit_exceeded", "rate_limit_exceeded")
    ELSE IF Contains(error_text, InvalidToken) \/ Contains(error_text, Unauthorized)
    THEN HttpError(401, "invalid_auth", "invalid_api_key")
    ELSE IF Contains(error_text, BotDoesNotExist)
    THEN HttpError(404, "model_not_found", "model_not_found")
    ELSE HttpError(400, "invalid_request", "bad_request")

ErrorInit ==
    /\ ChatIdle
    /\ EvertUnused
    /\ RestIdleExcept({"error"})
    /\ \E text \in ErrorTexts, allow_retry \in BOOLEAN :
          error_event = [text |-> text, allow_retry |-> allow_retry]
    /\ http_response = NoHttpResponse

\* handle_stream_response, the first events, ChatEventType::Error without
\* replace_response: res.status_code(status); res.render(Json(error_response))
RenderError ==
    /\ http_response = NoHttpResponse
    /\ http_response' =
          convert_poe_error_to_openai(error_event.text, error_event.allow_retry)
    /\ UNCHANGED <<chatVars, evertVars, error_event>>
    /\ RestUnchangedExcept({"error"})

ErrorNext == RenderError

SpecError == ErrorInit /\ [][ErrorNext]_vars

\* C15: a first upstream Error event whose text is the quota-exhaustion phrase
\* is answered with HTTP 429, type "insufficient_quota" and code
\* "insufficient_quota".
C15_QuotaError ==
    http_response # NoHttpResponse /\ error_event.text = MorePoints
    => http_response = HttpError(429, "insufficient_quota", "insufficient_quota")

-----------------------------------------------------------------------------
(* Claims about upstream Error events in a streaming response *)

\* the positions of the Error events the upstream sent
ErrorEvents == {i \in DOMAIN upstream : upstream[i] = ErrorEv}

\* the upstream had no transport failure
NoStreamErr == \A i \in DOMAIN upstream : upstream[i] # StreamErr

\* the positions of the error frames sent
ErrorFrames == {i \in DOMAIN out : out[i].kind = "error"}

\* the request was aborted with an HTTP error and no SSE frame
AbortedWithStatus == result = "error" /\ out = <<>>

\* the stream holds one error frame, then [DONE], and nothing after them
OneErrorFrameThenDone ==
    /\ result = "stream"
    /\ Len(out) >= 2
    /\ ErrorFrames = {Len(out) - 1}
    /\ out[Len(out)] = DoneFrame

\* C16: when a streaming handler has finished and the upstream, free of
\* transport failures, sent an Error event, then the request was aborted with
\* an HTTP status and no SSE frame if the Error was the first event, and
\* otherwise the stream holds exactly one error frame followed by [DONE], with
\* no frame after them.
C16_ErrorNeverIgnored ==
    mode = "stream" /\ pc = "finished" /\ NoStreamErr /\ ErrorEvents # {}
    => IF 1 \in ErrorEvents THEN AbortedWithStatus ELSE OneErrorFrameThenDone

-----------------------------------------------------------------------------
(* handlers/limit.rs: rate_limit_middleware *)

\* The number of concurrent requests, and the last reading of the clock.
NumRequests == 2
MaxInstant == 4

\* main.rs: the mutex starts at Instant::now() - Duration::from_secs(60).
InitialLeadMs == 60000

Requests == 1..NumRequests

\* RATE_LIMIT_MS as the environment sets it; 0 disables the limiter.
RateLimits == {0, 1, 2}

\* A request in rate_limit_middleware: its position, the Instant it read, the
\* wait it computed, the deadline of its sleep, and the Instant it wrote into
\* the mutex (-1 before that).
AtGate(pos, now, wait, deadline, released_at) ==
    [pc |-> pos, now |-> now, wait |-> wait, deadline |-> deadline,
     released_at |-> released_at]

GateInit ==
    /\ ChatIdle
    /\ EvertUnused
    /\ RestIdleExcept({"gate"})
    /\ instant = 0
    /\ rate_limit_ms \in RateLimits
    /\ last_call = 0 - InitialLeadMs
    /\ lock_holder = 0
    /\ gate = [r \in Requests |-> AtGate("start", 0, 0, 0, -1)]

GateFrame ==
    /\ UNCHANGED <<chatVars, evertVars, rate_limit_ms>>
    /\ RestUnchangedExcept({"gate"})

\* get_rate_limit_ms() is None: the request goes on without the mutex
Disabled(r) ==
    /\ gate[r].pc = "start"
    /\ rate_limit_ms = 0
    /\ gate' = [gate EXCEPT ![r].pc = "next"]
    /\ UNCHANGED <<instant, last_call, lock_holder>>
    /\ GateFrame

\* let mut lock = cell.lock().await
Lock(r) ==
    /\ gate[r].pc = "start"
    /\ rate_limit_ms > 0
    /\ lock_holder = 0
    /\ lock_holder' = r
    /\ gate' = [gate EXCEPT ![r].pc = "locked"]
    /\ UNCHANGED <<instant, last_call>>
    /\ GateFrame

\* Instant::duration_since: zero when the earlier instant is the later one
duration_since(later, earlier) == IF later > earlier THEN later - earlier ELSE 0

\* let now = Instant::now(); let elapsed = now.duration_since(*lock);
\* if elapsed < interval { let wait = interval - elapsed; ...
Elapsed(r) ==
    /\ gate[r].pc = "locked"
    /\ lock_holder = r
    /\ gate' = [gate EXCEPT
          ![r] = IF duration_since(instant, last_call) < rate_limit_ms
                 THEN AtGate("sleep", instant,
                             rate_limit_ms - duration_since(instant, last_call), 0, -1)
                 ELSE AtGate("update", instant, 0, 0, -1)]
    /\ UNCHANGED <<instant, last_call, lock_holder>>
    /\ GateFrame

\* sleep(wait): the deadline is wait after the instant of the call
Sleep(r) ==
    /\ gate[r].pc = "sleep"
    /\ gate' = [gate EXCEPT ![r].pc = "sleeping", ![r].deadline = instant + gate[r].wait]
    /\ UNCHANGED <<instant, last_call, lock_holder>>
    /\ GateFrame

\* .await of the sleep: it returns at the deadline or later
Wake(r) ==
    /\ gate[r].pc = "sleeping"
    /\ instant >= gate[r].deadline
    /\ gate' = [gate EXCEPT ![r].pc = "update"]
    /\ UNCHANGED <<instant, last_call, lock_holder>>
    /\ GateFrame

\* *lock = now: the Instant read before the sleep
WrittenBeforeSleep(now, at) == now

\* the Instant the request writes into the mutex: Instant::now() at the write
Written(now, at) == at

\* *lock = Instant::now(); and the guard is dropped at the end of the block
Update(r) ==
    /\ gate[r].pc = "update"
    /\ lock_holder = r
    /\ last_call' = Written(gate[r].now, instant)
    /\ lock_holder' = 0
    /\ gate' = [gate EXCEPT ![r].pc = "next",
                            ![r].released_at = Written(gate[r].now, instant)]
    /\ UNCHANGED instant
    /\ GateFrame

\* ctrl.call_next(req, depot, res).await
CallNext(r) ==
    /\ gate[r].pc = "next"
    /\ gate' = [gate EXCEPT ![r].pc = "passed"]
    /\ UNCHANGED <<instant, last_call, lock_holder>>
    /\ GateFrame

\* The client goes away while the request holds the mutex: the task is
\* dropped, and its guard with it.
Dropped(r) ==
    /\ gate[r].pc \in {"locked", "sleep", "sleeping", "update"}
    /\ lock_holder' = 0
    /\ gate' = [gate EXCEPT ![r].pc = "dropped"]
    /\ UNCHANGED <<instant, last_call>>
    /\ GateFrame

\* a millisecond passes
Elapse ==
    /\ instant < MaxInstant
    /\ instant' = instant + 1
    /\ UNCHANGED <<last_call, lock_holder, gate>>
    /\ GateFrame

GateNext ==
    \/ \E r \in Requests :
          \/ Disabled(r)
          \/ Lock(r)
          \/ Elapsed(r)
          \/ Sleep(r)
          \/ Wake(r)
          \/ Update(r)
          \/ CallNext(r)
          \/ Dropped(r)
    \/ Elapse

SpecGate == GateInit /\ [][GateNext]_vars

-----------------------------------------------------------------------------
(* Claims about the rate limiter *)

\* The requests the gate has released: they wrote their Instant into the mutex.
Released == {r \in Requests : gate[r].released_at >= 0}

\* Any two released requests were released at least the interval apart.
Spaced ==
    \A r1 \in Released, r2 \in Released :
        r1 # r2 /\ gate[r1].released_at <= gate[r2].released_at
        => gate[r2].released_at - gate[r1].released_at >= rate_limit_ms

\* A request between cell.lock().await and the end of the block, where the
\* timestamp is read and written, holds the mutex.
InsideBlock(r) == gate[r].pc \in {"locked", "sleep", "sleeping", "update"}
HeldInside == \A r \in Requests : InsideBlock(r) => lock_holder = r

\* C17: with an interval above zero, under every interleaving, any two
\* requests the gate released (the instants they wrote as last call) are at
\* least the interval apart, every request at the lines that read or write the
\* last-call timestamp holds the mutex, and the timestamp changes only in a step
\* of the holder.
C17_RateLimitGate ==
    [][rate_limit_ms > 0
       => /\ Spaced'
          /\ HeldInside'
          /\ last_call' # last_call
             => lock_holder # 0 /\ gate[lock_holder].pc = "update"]_vars

\* Two requests were released exactly the interval apart, the later one after
\* sleeping.
C17_Witness ==
    /\ rate_limit_ms > 0
    /\ \E r1 \in Released, r2 \in Released :
          /\ r1 # r2
          /\ gate[r2].wait > 0
          /\ gate[r2].released_at = gate[r1].released_at + rate_limit_ms

-----------------------------------------------------------------------------
(* cache.rs get_cached_config and handlers/admin.rs save_config *)

\* The number of calls of get_cached_config.
NumReaders == 2

Readers == 1..NumReaders

\* The configuration before the admin's write, and the one the admin posts.
OldConfig ==
    [enable |-> SomeBool(FALSE),
     models |-> {[name |-> <<"a", "1">>, mapping |-> None]}]
NewConfig ==
    [enable |-> SomeBool(TRUE),
     models |-> {[name |-> <<"a", "1">>, mapping |-> Some(<<"b", "1">>)]}]

\* serde_json::to_vec and serde_json::from_slice
to_vec(cfg) == <<"json", cfg>>
from_slice(bytes) == bytes[2]

\* A call of get_cached_config: its position, the Config it holds, the Config
\* it returned, and whether it began after save_config had completed.
Call(pos, conf, returned, after_save) ==
    [pc |-> pos, conf |-> conf, returned |-> returned, after_save |-> after_save]

ConfigInit ==
    /\ ChatIdle
    /\ EvertUnused
    /\ RestIdleExcept({"config"})
    /\ models_yaml = OldConfig
    /\ sled_models_yaml \in {NoBytes, to_vec(OldConfig)}
    /\ admin_pc = "start"
    /\ reader = [r \in Readers |-> Call("start", NoConfig, NoConfig, FALSE)]

ConfigFrame ==
    /\ UNCHANGED <<chatVars, evertVars>>
    /\ RestUnchangedExcept({"config"})

\* save_config: save_config_to_file(&config)
SaveConfigToFile ==
    /\ admin_pc = "start"
    /\ models_yaml' = NewConfig
    /\ admin_pc' = "file_saved"
    /\ UNCHANGED <<sled_models_yaml, reader>>
    /\ ConfigFrame

\* save_config: let _ = save_config_sled("models.yaml", &config)
SaveConfigSled ==
    /\ admin_pc = "file_saved"
    /\ sled_models_yaml' = to_vec(NewConfig)
    /\ admin_pc' = "sled_saved"
    /\ UNCHANGED <<models_yaml, reader>>
    /\ ConfigFrame

\* save_config: invalidate_config_cache(), then the response is rendered
InvalidateConfigCache ==
    /\ admin_pc = "sled_saved"
    /\ sled_models_yaml' = NoBytes
    /\ admin_pc' = "done"
    /\ UNCHANGED <<models_yaml, reader>>
    /\ ConfigFrame

\* get_cached_config: match load_config_sled(cache_key)
LoadConfigSled(r) ==
    /\ reader[r].pc = "start"
    /\ reader' = [reader EXCEPT
          ![r] = IF sled_models_yaml # NoBytes
                 THEN Call("returned", from_slice(sled_models_yaml),
                           from_slice(sled_models_yaml), admin_pc = "done")
                 ELSE Call("read_yaml", NoConfig, NoConfig, admin_pc = "done")]
    /\ UNCHANGED <<models_yaml, sled_models_yaml, admin_pc>>
    /\ ConfigFrame

\* get_cached_config: match load_config_from_yaml()
LoadConfigFromYaml(r) ==
    /\ reader[r].pc = "read_yaml"
    /\ reader' = [reader EXCEPT ![r].pc = "save_sled", ![r].conf = models_yaml]
    /\ UNCHANGED <<models_yaml, sled_models_yaml, admin_pc>>
    /\ ConfigFrame

\* get_cached_config: let _ = save_config_sled(cache_key, &conf); Arc::new(conf)
SaveLoadedConfig(r) ==
    /\ reader[r].pc = "save_sled"
    /\ sled_models_yaml' = to_vec(reader[r].conf)
    /\ reader' = [reader EXCEPT ![r].pc = "returned", ![r].returned = reader[r].conf]
    /\ UNCHANGED <<models_yaml, admin_pc>>
    /\ ConfigFrame

ConfigNext ==
    \/ SaveConfigToFile
    \/ SaveConfigSled
    \/ InvalidateConfigCache
    \/ \E r \in Readers :
          \/ LoadConfigSled(r)
          \/ LoadConfigFromYaml(r)
          \/ SaveLoadedConfig(r)

SpecConfig == ConfigInit /\ [][ConfigNext]_vars

\* C18: under every interleaving with concurrent calls of get_cached_config,
\* a call of get_cached_config that begins after the admin's configuration
\* write has completed returns the new configuration.
C18_ConfigVisibleAfterWrite ==
    \A r \in Readers :
        reader[r].pc = "returned" /\ reader[r].after_save
        => reader[r].returned = NewConfig

-----------------------------------------------------------------------------
(* utils.rs: process_message_images *)

\* The number of image_url items of a request.
MaxImages == 2

\* An image_url item: an external URL, a data URL or a Poe CDN URL; the key of
\* its cache entry; its url; and the length of its base64 part.
ExternalImage(key) ==
    [kind |-> "external", key |-> key, url |-> <<"x">>, b64_len |-> 0]
DataImage(key) ==
    [kind |-> "data", key |-> key, url |-> <<"d">>, b64_len |-> 5]
CdnImage ==
    [kind |-> "cdn", key |-> "none", url |-> <<"p">>, b64_len |-> 0]

ImageItems ==
    {ExternalImage(k) : k \in UrlKeys} \cup {DataImage(k) : k \in HashKeys} \cup {CdnImage}

ImageLists == UNION {[1..n -> ImageItems] : n \in 1..MaxImages}

\* The attachment_url of an upload response, and the URLs of the Poe CDN.
AttachmentUrl == <<"h", ":", "p">>
PoeUrls == {put.url : put \in CachePuts}

\* pub fn estimate_base64_size: (base64_part.len() as f64 * 0.75) as usize
estimate_base64_size(b64_len) == (b64_len * 3) \div 4

\* The position of the first item of the kind at or after position from,
\* Len(list) + 1 when there is none.
NextOf(list, from, kind) ==
    IF \E i \in from..Len(list) : list[i].kind = kind
    THEN CHOOSE i \in from..Len(list) :
            /\ list[i].kind = kind
            /\ \A j \in from..(i - 1) : list[j].kind # kind
    ELSE Len(list) + 1

\* The caches as a request may find them: empty, or holding a live or an
\* expired entry.
FoundSleds ==
    {EmptySled,
     [EmptySled EXCEPT !.urls["url:a"] = store_value(3, <<"p">>, 1024 * 1024)],
     [EmptySled EXCEPT !.urls["url:a"] = store_value(1, <<"p">>, 1024 * 1024)],
     [EmptySled EXCEPT !.base64["base64:h"] = store_value(3, <<"p">>, 3)],
     [EmptySled EXCEPT !.urls["url:b"] = store_value(3, <<"h", ":", "p">>, 1024 * 1024),
                       !.base64["base64:h"] = store_value(2, <<"h", ":", "p">>, 3)]}

\* Where the function goes once the external URLs are dealt with.
DataPhase(list) == IF NextOf(list, 1, "data") <= Len(list) THEN "data" ELSE "done"
ResultAt(pos) == IF pos = "done" THEN "Ok" ELSE "pending"

ImagesInit ==
    /\ ChatIdle
    /\ EvertUnused
    /\ RestIdleExcept({"cache", "images", "config"})
    /\ models_yaml = OldConfig
    /\ sled_models_yaml \in {NoBytes, to_vec(OldConfig)}
    /\ admin_pc = "start"
    /\ reader = [r \in Readers |-> Call("start", NoConfig, NoConfig, FALSE)]
    /\ clock = 1
    /\ url_cache_ttl = 2
    /\ url_cache_size_mb = 1
    /\ sled \in FoundSleds
    /\ cache_calls = 0
    /\ lastOp = NoCacheOp
    /\ items \in ImageLists
    /\ img_pc = "config"
    /\ img_idx = 0
    /\ to_upload = <<>>
    /\ upload_calls = 0
    /\ img_faults = {}
    /\ img_result = "pending"
    /\ temp_files = <<>>
    /\ temp_dir = NoTempFiles

ImagesFrame ==
    /\ UNCHANGED <<chatVars, evertVars, clock, url_cache_ttl, url_cache_size_mb,
                   cache_calls, lastOp, models_yaml, admin_pc>>
    /\ RestUnchangedExcept({"cache", "images", "config"})

\* What has failed so far: a failed open_tree or get of a lookup is a failed
\* cache read, a failed open_tree or insert of a store is a failed cache write,
\* every other failure is one of the upkeep (TTL refresh, removal, eviction).
FaultKind(op, fault) ==
    IF op = "read" /\ fault \in {"open_tree", "get"} THEN "cache_read"
    ELSE IF op = "write" /\ fault \in {"open_tree", "insert"} THEN "cache_write"
    ELSE "cache_upkeep"
Faulted(faults, op, fault) ==
    IF fault = "none" THEN faults ELSE faults \cup {FaultKind(op, fault)}

\* What load_config_sled returns: Err, Ok(None) or Ok(Some(conf)).
load_config_sled(bytes, fault) ==
    IF fault = "get" THEN "Err" ELSE IF bytes = NoBytes THEN "None" ELSE "Some"

\* chat_completions: let config = get_cached_config().await, by the request
\* (reader 1) with no other call running: a failed read of sled falls back to
\* the YAML file, a failed save_config_sled is ignored.
GetCachedConfig ==
    /\ img_pc = "config"
    /\ \E fault \in {"none", "get", "insert"} :
          /\ fault = "insert" => load_config_sled(sled_models_yaml, fault) # "Some"
          /\ reader' = [reader EXCEPT
                ![1] = IF load_config_sled(sled_models_yaml, fault) = "Some"
                       THEN Call("returned", from_slice(sled_models_yaml),
                                 from_slice(sled_models_yaml), FALSE)
                       ELSE Call("returned", models_yaml, models_yaml, FALSE)]
          /\ sled_models_yaml' =
                IF load_config_sled(sled_models_yaml, fault) = "Some" \/ fault = "insert"
                THEN sled_models_yaml ELSE to_vec(models_yaml)
          /\ img_faults' = Faulted(img_faults, IF fault = "get" THEN "read" ELSE "write",
                                   IF fault = "get" THEN "get" ELSE fault)
    /\ img_pc' = "start"
    /\ UNCHANGED <<sled, items, img_idx, to_upload, upload_calls, img_result>>
    /\ UNCHANGED <<temp_files, temp_dir>>
    /\ ImagesFrame

\* the loop that sorts the items into external_urls and data_urls
Classify ==
    /\ img_pc = "start"
    /\ img_pc' = IF NextOf(items, 1, "external") <= Len(items)
                 THEN "urls" ELSE DataPhase(items)
    /\ img_idx' = IF NextOf(items, 1, "external") <= Len(items)
                  THEN NextOf(items, 1, "external") ELSE NextOf(items, 1, "data")
    /\ img_result' = ResultAt(img_pc')
    /\ UNCHANGED <<sled, items, to_upload, upload_calls, img_faults>>
    /\ UNCHANGED <<reader, sled_models_yaml, temp_files, temp_dir>>
    /\ ImagesFrame

\* The item at pos takes the URL the cache returned, or is queued for upload.
Looked(pos, got, fault) ==
    /\ sled' = got.db
    /\ items' = IF got.result.hit THEN [items EXCEPT ![pos].url = got.result.url]
                ELSE items
    /\ to_upload' = IF got.result.hit THEN to_upload ELSE Append(to_upload, pos)
    /\ img_faults' = Faulted(img_faults, "read", fault)

\* for each external URL: crate::cache::get_cached_url(url)
LookupUrl ==
    /\ img_pc = "urls"
    /\ img_idx <= Len(items)
    /\ \E fault \in SledFaults :
          Looked(img_idx,
                 get_cached_url(sled, clock, url_cache_ttl, url_cache_size_mb,
                                items[img_idx].key, fault),
                 fault)
    /\ img_idx' = NextOf(items, img_idx + 1, "external")
    /\ UNCHANGED <<img_pc, upload_calls, img_result, reader, sled_models_yaml>>
    /\ UNCHANGED <<temp_files, temp_dir>>
    /\ ImagesFrame

\* if !urls_to_upload.is_empty()
UrlsLooked ==
    /\ img_pc = "urls"
    /\ img_idx > Len(items)
    /\ img_pc' = IF to_upload # <<>> THEN "upload_urls" ELSE DataPhase(items)
    /\ img_idx' = IF to_upload # <<>> THEN 1 ELSE NextOf(items, 1, "data")
    /\ img_result' = ResultAt(img_pc')
    /\ UNCHANGED <<sled, items, to_upload, upload_calls, img_faults>>
    /\ UNCHANGED <<reader, sled_models_yaml, temp_files, temp_dir>>
    /\ ImagesFrame

\* poe_client.client.upload_files_batch(upload_requests).await: Err, or Ok
\* with one response for each request
Uploaded(ok_pc) ==
    /\ upload_calls' = upload_calls + 1
    /\ \E ok \in BOOLEAN :
          /\ img_pc' = IF ok THEN ok_pc ELSE "done"
          /\ img_result' = IF ok THEN "pending" ELSE "Err"
          /\ img_faults' = IF ok THEN img_faults ELSE img_faults \cup {"upload"}
    /\ img_idx' = 1
    /\ UNCHANGED <<sled, items, to_upload, reader, sled_models_yaml>>
    /\ ImagesFrame

\* the batch of the external URLs
UploadUrls ==
    /\ img_pc = "upload_urls"
    /\ Uploaded("cache_urls")
    /\ UNCHANGED <<temp_files, temp_dir>>

\* for each response: crate::cache::cache_url(original_url, attachment_url,
\* 1024 * 1024), and the item takes the attachment_url
CacheUploadedUrl ==
    /\ img_pc = "cache_urls"
    /\ \E fault \in {"none", "open_tree", "insert", "remove", "remove_once"} :
          /\ sled' = cache_url(sled, clock, url_cache_ttl, url_cache_size_mb,
                               items[to_upload[img_idx]].key, AttachmentUrl,
                               1024 * 1024, fault)
          /\ img_faults' = Faulted(img_faults, "write", fault)
    /\ items' = [items EXCEPT ![to_upload[img_idx]].url = AttachmentUrl]
    /\ img_pc' = IF img_idx < Len(to_upload) THEN "cache_urls" ELSE DataPhase(items)
    /\ img_idx' = IF img_idx < Len(to_upload) THEN img_idx + 1
                  ELSE NextOf(items, 1, "data")
    /\ to_upload' = IF img_idx < Len(to_upload) THEN to_upload ELSE <<>>
    /\ img_result' = ResultAt(img_pc')
    /\ UNCHANGED <<upload_calls, reader, sled_models_yaml, temp_files, temp_dir>>
    /\ ImagesFrame

\* for each data URL: crate::cache::get_cached_base64(&hash)
LookupData ==
    /\ img_pc = "data"
    /\ img_idx <= Len(items)
    /\ \E fault \in SledFaults :
          Looked(img_idx,
                 get_cached_base64(sled, clock, url_cache_ttl, url_cache_size_mb,
                                   items[img_idx].key, fault),
                 fault)
    /\ img_idx' = NextOf(items, img_idx + 1, "data")
    /\ UNCHANGED <<img_pc, upload_calls, img_result, reader, sled_models_yaml>>
    /\ UNCHANGED <<temp_files, temp_dir>>
    /\ ImagesFrame

\* The paths of a Vec of paths; a temp file is named after the position of
\* its data URL (the code draws a fresh nanoid for each).
Paths(files) == {files[i] : i \in 1..Len(files)}

\* for path in &temp_files { fs::remove_file(path) } with the loop starting at
\* the second path
remove_temp_filesFromSecond(tried, files) ==
    tried \cup {files[i] : i \in 2..Len(files)}

\* for path in &temp_files { fs::remove_file(path) }: the paths on which
\* removal has been called
remove_temp_files(tried, files) == tried \cup Paths(files)

\* The clean-up loop over files in the directory dir; any removal may fail,
\* which is logged and nothing more.
RemoveTempFiles(files, dir) ==
    /\ temp_files' = files
    /\ \E failed \in SUBSET Paths(files) :
          temp_dir' = [dir EXCEPT !.remove_tried = remove_temp_files(@, files),
                                  !.remove_failed = @ \cup failed]

\* handle_data_url_to_temp_file: Ok(file_path), the Err of a data URL that
\* does not decode (no file is written), or the Err of fs::write, which may
\* fail after it has created the file.
TempFileOutcomes == {"Ok", "decode", "write"}
TempFileFaults(outcome) ==
    IF outcome = "Ok" THEN {}
    ELSE IF outcome = "decode" THEN {"temp_file"}
    ELSE {"temp_file", "fs_write"}

\* The directory after the data URLs before position upto are written, and
\* fs::write has left a file behind for the one at upto when it failed.
FilesWritten(dir, queue, upto, outcome) ==
    [dir EXCEPT !.created =
        @ \cup {queue[i] : i \in 1..(IF outcome = "decode" THEN upto - 1 ELSE upto)}]

\* if !data_to_upload.is_empty(): handle_data_url_to_temp_file for each data
\* URL; an Err removes the temp files and fails the call
TempFiles ==
    /\ img_pc = "data"
    /\ img_idx > Len(items)
    /\ IF to_upload = <<>>
       THEN /\ img_pc' = "done"
            /\ img_result' = "Ok"
            /\ UNCHANGED <<img_faults, temp_files, temp_dir>>
       ELSE \E failing \in 1..(Len(to_upload) + 1), outcome \in TempFileOutcomes :
               /\ failing > Len(to_upload) <=> outcome = "Ok"
               /\ img_pc' = IF outcome = "Ok" THEN "upload_data" ELSE "done"
               /\ img_result' = IF outcome = "Ok" THEN "pending" ELSE "Err"
               /\ img_faults' = img_faults \cup TempFileFaults(outcome)
               /\ IF outcome = "Ok"
                  THEN /\ temp_files' = to_upload
                       /\ temp_dir' = FilesWritten(temp_dir, to_upload, Len(to_upload), outcome)
                  ELSE RemoveTempFiles(SubSeq(to_upload, 1, failing - 1),
                                       FilesWritten(temp_dir, to_upload, failing, outcome))
    /\ UNCHANGED <<sled, items, img_idx, to_upload, upload_calls, reader, sled_models_yaml>>
    /\ ImagesFrame

\* the batch of the temp files
UploadData ==
    /\ img_pc = "upload_data"
    /\ Uploaded("cache_data")
    /\ IF img_result' = "Err" THEN RemoveTempFiles(temp_files, temp_dir)
       ELSE UNCHANGED <<temp_files, temp_dir>>

\* for each response: crate::cache::cache_base64(hash, attachment_url, size),
\* and the item takes the attachment_url; the temp files are removed at the end
CacheUploadedData ==
    /\ img_pc = "cache_data"
    /\ \E fault \in {"none", "open_tree", "insert"} :
          /\ sled' = cache_base64(sled, clock, url_cache_ttl, url_cache_size_mb,
                                  items[to_upload[img_idx]].key, AttachmentUrl,
                                  estimate_base64_size(items[to_upload[img_idx]].b64_len),
                                  fault)
          /\ img_faults' = Faulted(img_faults, "write", fault)
    /\ items' = [items EXCEPT ![to_upload[img_idx]].url = AttachmentUrl]
    /\ img_pc' = IF img_idx < Len(to_upload) THEN "cache_data" ELSE "done"
    /\ img_idx' = IF img_idx < Len(to_upload) THEN img_idx + 1 ELSE img_idx
    /\ img_result' = ResultAt(img_pc')
    /\ IF img_pc' = "done" THEN RemoveTempFiles(temp_files, temp_dir)
       ELSE UNCHANGED <<temp_files, temp_dir>>
    /\ UNCHANGED <<to_upload, upload_calls, reader, sled_models_yaml>>
    /\ ImagesFrame

\* The client disconnects while upload_files_batch(..).await is pending: the
\* future of the request is dropped at the await, and with it the locals of
\* process_message_images; dropping temp_files, a Vec<PathBuf>, removes no file.
Disconnect ==
    /\ img_pc \in {"upload_urls", "upload_data"}
    /\ img_pc' = "cancelled"
    /\ temp_files' = <<>>
    /\ UNCHANGED <<sled, items, img_idx, to_upload, upload_calls, img_faults,
                   img_result, temp_dir, reader, sled_models_yaml>>
    /\ ImagesFrame

ImagesNext ==
    \/ GetCachedConfig
    \/ Classify
    \/ LookupUrl
    \/ UrlsLooked
    \/ UploadUrls
    \/ CacheUploadedUrl
    \/ LookupData
    \/ TempFiles
    \/ UploadData
    \/ CacheUploadedData
    \/ Disconnect

SpecImages == ImagesInit /\ [][ImagesNext]_vars

-----------------------------------------------------------------------------
(* Claims about the attachment normalizer *)

ImagesDone == img_pc = "done"

\* Every item of the request carries a URL of the Poe CDN.
AllNormalized == \A i \in DOMAIN items : items[i].url \in PoeUrls

\* C19: whatever operations of the caches (urls, base64, config) fail, the
\* request gets its configuration, and process_message_images fails only when
\* an upload or a temp file fails; when none does it returns Ok with every
\* image item carrying a Poe URL, taken from a cache or uploaded.
C19_CacheFailuresSwallowed ==
    /\ img_pc # "config" => reader[1].pc = "returned" /\ reader[1].returned = models_yaml
    /\ ImagesDone
       => /\ img_result = "Err" => img_faults \cap {"upload", "temp_file"} # {}
          /\ img_faults \cap {"upload", "temp_file"} = {}
             => img_result = "Ok" /\ AllNormalized

\* A call met a failed cache read and a failed cache write, and returned Ok.
C19_Witness ==
    /\ ImagesDone
    /\ img_result = "Ok"
    /\ {"cache_read", "cache_write"} \subseteq img_faults
    /\ AllNormalized

C20_SingleBatchUpload == upload_calls <= 1

-----------------------------------------------------------------------------
(* poe_client.rs: the query of create_chat_request *)

\* The number of messages of the conversation.
MaxQueryMessages == 3

\* Option<i32>
SomeInt(x) == [some |-> TRUE, v |-> x]
NoInt == [some |-> FALSE, v |-> 0]

\* A Message with a text content and neither tool_calls nor tool_call_id.
Roles == {"system", "user", "assistant", "developer", "tool"}
TextMessage(role) == [role |-> role, content |-> <<"h", "i">>]
Conversations == UNION {[1..n -> {TextMessage(r) : r \in Roles}] : n \in 1..MaxQueryMessages}

\* A ChatTool: the function's name and description.
ChatTool(name, description) == [name |-> name, description |-> description]

\* The fields of the ChatCompletionRequest that the suffixes are made from:
\* tools, thinking (budget_tokens), extra_body (google.thinking_config.
\* thinking_budget) and reasoning_effort.
CompletionRequest(tools, thinking, extra_body, reasoning_effort) ==
    [tools |-> tools, thinking |-> thinking, extra_body |-> extra_body,
     reasoning_effort |-> reasoning_effort]
NoThinking == [some |-> FALSE, budget_tokens |-> NoInt]
Thinking(budget_tokens) == [some |-> TRUE, budget_tokens |-> budget_tokens]
NoExtraBody == [some |-> FALSE, thinking_budget |-> NoInt]
ExtraBody(thinking_budget) == [some |-> TRUE, thinking_budget |-> thinking_budget]

CompletionRequests ==
    {CompletionRequest(None, NoThinking, NoExtraBody, None),
     CompletionRequest(Some(<<ChatTool(<<"f">>, None)>>), NoThinking, NoExtraBody, None),
     CompletionRequest(Some(<<ChatTool(<<"f">>, Some(<<>>)), ChatTool(<<"g">>, Some(<<"d">>))>>),
                       Thinking(SomeInt(12)), ExtraBody(SomeInt(3)), Some(<<"l", "o", "w">>)),
     CompletionRequest(None, Thinking(NoInt), ExtraBody(SomeInt(3)), Some(<<"m", "a", "x">>)),
     CompletionRequest(None, NoThinking, ExtraBody(SomeInt(0)), Some(<<"h", "i", "g", "h">>)),
     CompletionRequest(None, Thinking(SomeInt(-1)), NoExtraBody, None)}

\* An entry of config.models: the key and the ModelConfig's replace_response.
ReplaceEntries ==
    {[name |-> n, replace_response |-> flag] :
        n \in ModelIds, flag \in {NoBool, SomeBool(FALSE), SomeBool(TRUE)}}

\* The config.models of at most one entry.
ReplaceConfigs == {{}} \cup {{e} : e \in ReplaceEntries}

\* format!(" --{}", tool.function.name) for every tool without a description
RECURSIVE ToolSuffixes(_)
ToolSuffixes(tools) ==
    IF tools = <<>> THEN <<>>
    ELSE (IF Head(tools).description.some /\ Head(tools).description.v # <<>>
          THEN <<>>
          ELSE <<" ", "-", "-">> \o Head(tools).name)
         \o ToolSuffixes(Tail(tools))

\* let thinking_budget = ...: thinking.budget_tokens when thinking is set,
\* else the thinking_budget of extra_body
thinking_budget(request) ==
    IF request.thinking.some THEN request.thinking.budget_tokens
    ELSE IF request.extra_body.some THEN request.extra_body.thinking_budget
    ELSE NoInt

\* format!(" --thinking_budget {}", budget) when budget >= 0
BudgetSuffix(budget) ==
    IF budget.some /\ budget.v >= 0
    THEN <<" ", "-", "-", "t", "h", "i", "n", "k", "i", "n", "g", "_",
           "b", "u", "d", "g", "e", "t", " ">> \o ToDec(budget.v)
    ELSE <<>>

valid_efforts == {<<"l", "o", "w">>, <<"m", "e", "d", "i", "u", "m">>, <<"h", "i", "g", "h">>}

\* format!(" --reasoning_effort {}", effort) for a valid effort
EffortSuffix(effort) ==
    IF effort.some /\ effort.v \in valid_efforts
    THEN <<" ", "-", "-", "r", "e", "a", "s", "o", "n", "i", "n", "g", "_",
           "e", "f", "f", "o", "r", "t", " ">> \o effort.v
    ELSE <<>>

\* pub fn process_message_content_with_suffixes
process_message_content_with_suffixes(content, request) ==
    content
    \o (IF request.tools.some THEN ToolSuffixes(request.tools.v) ELSE <<>>)
    \o BudgetSuffix(thinking_budget(request))
    \o EffortSuffix(request.reasoning_effort)

\* fn openai_message_to_poe: the role and the content of the ChatMessage
openai_message_to_poe(msg, role_override, chat_completion_request) ==
    [role |-> IF role_override.some THEN role_override.v ELSE msg.role,
     content |-> IF msg.role = "user" /\ chat_completion_request.some
                 THEN process_message_content_with_suffixes(msg.content,
                                                            chat_completion_request.v)
                 ELSE msg.content]

\* create_chat_request: config.models.get(model), then
\* replace_response.unwrap_or(false)
should_replace_response(models, model) ==
    \E e \in models : e.name = model /\ e.replace_response = SomeBool(TRUE)

\* create_chat_request: let role_override = match original_role.as_str()
role_override(original_role, replace) ==
    CASE original_role = "assistant" -> Some("bot")
      [] original_role = "developer" -> Some("user")
      [] original_role = "tool" -> Some("user")
      [] original_role = "system" /\ replace -> Some("user")
      [] OTHER -> None

\* create_chat_request: let is_last_user_message = ...
is_last_user_message(messages, index) ==
    messages[index].role = "user" /\ index = Len(messages)

\* create_chat_request: let query = messages.iter().enumerate().map(..).collect()
Query(model, messages, models, request) ==
    [index \in 1..Len(messages) |->
        openai_message_to_poe(
            messages[index],
            role_override(messages[index].role, should_replace_response(models, model)),
            IF is_last_user_message(messages, index) THEN Some(request) ELSE None)]

QueryInit ==
    /\ ChatIdle
    /\ EvertUnused
    /\ RestIdleExcept({"query"})
    /\ \E model \in {<<"a", "1">>, <<"A", "1">>}, messages \in Conversations,
          request \in CompletionRequests, models \in ReplaceConfigs :
          assembly = [model |-> model, messages |-> messages,
                      request |-> request, models |-> models]
    /\ query = <<>>
    /\ query_pc = "called"

\* pub async fn create_chat_request, the query of the ChatRequest it returns
BuildQuery ==
    /\ query_pc = "called"
    /\ query' = Query(assembly.model, assembly.messages, assembly.models,
                      assembly.request)
    /\ query_pc' = "built"
    /\ UNCHANGED <<chatVars, evertVars, assembly>>
    /\ RestUnchangedExcept({"query"})

QueryNext == BuildQuery

SpecQuery == QueryInit /\ [][QueryNext]_vars

-----------------------------------------------------------------------------
(* Claims about the query *)

QueryBuilt == query_pc = "built"

\* The replace_response flag of the selected model, its entry of config.models
\* found by comparing the ids without regard to case.
SelectedReplaceFlag ==
    \E e \in assembly.models :
        SameIgnoringCase(e.name, assembly.model) /\ e.replace_response = SomeBool(TRUE)

RemappedRole(role) ==
    CASE role = "assistant" -> "bot"
      [] role \in {"developer", "tool"} -> "user"
      [] role = "system" -> IF SelectedReplaceFlag THEN "user" ELSE "system"
      [] OTHER -> role

\* C22: in the query, assistant is bot, developer and tool are user, user stays
\* user, and system is user if and only if the selected model's
\* replace_response is true, its config entry found by a case-insensitive
\* comparison of the ids; else system stays system.
C22_RoleRemapping ==
    QueryBuilt
    => \A i \in DOMAIN query : query[i].role = RemappedRole(assembly.messages[i].role)

\* The position of the final message of role user, 0 when there is none.
FinalUser(messages) ==
    IF \E i \in DOMAIN messages : messages[i].role = "user"
    THEN CHOOSE i \in DOMAIN messages :
            /\ messages[i].role = "user"
            /\ \A j \in DOMAIN messages : messages[j].role = "user" => j <= i
    ELSE 0

\* C23: the suffixes are appended to the content of the final user message,
\* wherever it sits in the message list, and the content of every other
\* message is unchanged.
C23_SuffixOnFinalUser ==
    QueryBuilt
    => \A i \in DOMAIN query :
          query[i].content =
             IF i = FinalUser(assembly.messages)
             THEN process_message_content_with_suffixes(assembly.messages[i].content,
                                                        assembly.request)
             ELSE assembly.messages[i].content

-----------------------------------------------------------------------------
(* handlers/models.rs: get_models with YAML enabled *)

\* The length of the upstream model list, and the number of concurrent
\* requests of the model list.
MaxUpstream == 2
NumListRequests == 2

\* The ids of the upstream models, of the keys of config.models and of the
\* custom models.
ListIds == {<<"a", "1">>, <<"A", "1">>, <<"b", "1">>}

\* What the upstream answers: a list of model ids.
UpstreamLists == UNION {[1..n -> ListIds] : n \in 0..MaxUpstream}

\* An entry of config.models: the key, and the ModelConfig's enable and mapping.
Override(name, enable, mapping) == [name |-> name, enable |-> enable, mapping |-> mapping]
Overrides ==
    {Override(n, en, m) :
        n \in ListIds, en \in {NoBool, SomeBool(FALSE), SomeBool(TRUE)},
        m \in {None, Some(<<"B", "1">>)}}

\* The config.models of at most two keys.
OverrideMaps ==
    {{}} \cup {{e} : e \in Overrides}
    \cup {{e, f} : e \in Overrides, f \in {x \in Overrides : x.name = <<"b", "1">>}}
    \cup {{e, f} : e \in {x \in Overrides : x.name = <<"a", "1">>},
                   f \in {x \in Overrides : x.name = <<"A", "1">>}}

CustomLists ==
    {None, Some(<<>>), Some(<<<<"b", "1">>>>), Some(<<<<"B", "1">>, <<"a", "1">>>>),
     Some(<<<<"A", "1">>, <<"a", "1">>>>)}

\* config.models with every key in lower case
LoweredEntries(models) == {[e EXCEPT !.name = to_lowercase(e.name)] : e \in models}

\* .map(|(k, v)| (k.to_lowercase(), v)).collect(): a HashMap with the keys in
\* lower case; of two keys that differ in case only, the one that the
\* iteration of config.models yields last stays, which can be either.
yaml_config_maps(models) ==
    {m \in SUBSET LoweredEntries(models) :
        /\ \A e \in LoweredEntries(models) : \E f \in m : f.name = e.name
        /\ \A e, f \in m : e.name = f.name => e = f}

\* yaml_config_map.get(id)
HasOverride(map, id) == \E e \in map : e.name = id
GetOverride(map, id) == CHOOSE e \in map : e.name = id

\* yaml_config.enable.unwrap_or(false)
EnabledIfSet(yaml_config) == yaml_config.enable = SomeBool(TRUE)

\* yaml_config.enable.unwrap_or(true)
Enabled(yaml_config) == yaml_config.enable # SomeBool(FALSE)

\* let final_id = ...: the mapping in lower case, else the id
final_id(yaml_config, api_model_id_lower) ==
    IF yaml_config.mapping.some THEN to_lowercase(yaml_config.mapping.v)
    ELSE api_model_id_lower

\* What one upstream model adds to processed_models_enabled.
ProcessedApiModel(map, api_model_id_lower) ==
    IF HasOverride(map, api_model_id_lower)
    THEN IF Enabled(GetOverride(map, api_model_id_lower))
         THEN <<final_id(GetOverride(map, api_model_id_lower), api_model_id_lower)>>
         ELSE <<>>
    ELSE <<api_model_id_lower>>

\* for api_model_ref in api_models_data_arc.iter() { .. }
RECURSIVE ProcessApiModels(_, _)
ProcessApiModels(data, map) ==
    IF data = <<>> THEN <<>>
    ELSE ProcessedApiModel(map, to_lowercase(Head(data)))
         \o ProcessApiModels(Tail(data), map)

ListedIds(list) == {list[i] : i \in 1..Len(list)}

\* What one custom model adds to processed_models_enabled.
ProcessedCustomModel(processed, map, model_id) ==
    IF model_id \in ListedIds(processed) THEN processed
    ELSE IF HasOverride(map, model_id)
            /\ GetOverride(map, model_id).enable = SomeBool(FALSE)
    THEN processed
    ELSE Append(processed, model_id)

\* for custom_model in custom_models { .. }
RECURSIVE ProcessCustomModels(_, _, _)
ProcessCustomModels(processed, custom_models, map) ==
    IF custom_models = <<>> THEN processed
    ELSE ProcessCustomModels(
            ProcessedCustomModel(processed, map, to_lowercase(Head(custom_models))),
            Tail(custom_models), map)

\* processed_models_enabled, the data of the response
processed_models_enabled(data, map, custom_models) ==
    ProcessCustomModels(ProcessApiModels(data, map),
                        IF custom_models.some THEN custom_models.v ELSE <<>>, map)

\* get_models_from_api: Ok(models) with every id in lower case
LoweredList(list) == [i \in 1..Len(list) |-> to_lowercase(list[i])]

\* A request of the model list: where it is, its yaml_config_map, its
\* api_models_data_arc and its response.
ListRequest(pos, map, data, rendered) ==
    [pc |-> pos, yaml_config_map |-> map, api_models_data |-> data, response |-> rendered]
NoListResponse == [status |-> 0, data |-> <<>>]

\* The requests that are running.
Running(r) == r \in DOMAIN list_request

ModelsFrame ==
    /\ UNCHANGED <<chatVars, evertVars, models_config>>
    /\ RestUnchangedExcept({"models"})

\* One request, with every configuration, answer of the upstream and state of
\* the cache.
ModelListInit ==
    /\ ChatIdle
    /\ EvertUnused
    /\ RestIdleExcept({"models"})
    /\ \E models \in OverrideMaps, custom_models \in CustomLists :
          models_config = [models |-> models, custom_models |-> custom_models]
    /\ api_models_cache \in {None} \cup {Some(LoweredList(l)) : l \in UpstreamLists}
    /\ write_guard = 0
    /\ list_request = [r \in 1..1 |-> ListRequest("start", {}, <<>>, NoListResponse)]
    /\ fetches = <<>>

\* Concurrent requests arriving while the cache is empty.
ModelsCacheInit ==
    /\ ChatIdle
    /\ EvertUnused
    /\ RestIdleExcept({"models"})
    /\ models_config =
          [models |-> {Override(<<"a", "1">>, NoBool, Some(<<"B", "1">>))},
           custom_models |-> Some(<<<<"b", "1">>>>)]
    /\ api_models_cache = None
    /\ write_guard = 0
    /\ list_request =
          [r \in 1..NumListRequests |-> ListRequest("start", {}, <<>>, NoListResponse)]
    /\ fetches = <<>>

\* let config = get_cached_config().await; let yaml_config_map = ...
GetConfig(r) ==
    /\ Running(r)
    /\ list_request[r].pc = "start"
    /\ \E map \in yaml_config_maps(models_config.models) :
          list_request' = [list_request EXCEPT ![r].pc = "read",
                                               ![r].yaml_config_map = map]
    /\ UNCHANGED <<api_models_cache, write_guard, fetches>>
    /\ ModelsFrame

\* let read_guard = API_MODELS_CACHE.read().await: a hit takes the cached
\* data; the guard is dropped either way
ReadCache(r) ==
    /\ Running(r)
    /\ list_request[r].pc = "read"
    /\ write_guard = 0
    /\ list_request' =
          IF api_models_cache.some
          THEN [list_request EXCEPT ![r].pc = "filter",
                                    ![r].api_models_data = api_models_cache.v]
          ELSE [list_request EXCEPT ![r].pc = "write"]
    /\ UNCHANGED <<api_models_cache, write_guard, fetches>>
    /\ ModelsFrame

\* if let Some(cached_data) = &*write_guard with the second look left out
CachedUnderWriteGuardNever(cached) == None

\* if let Some(cached_data) = &*write_guard: the second look at the cache,
\* under the write guard
CachedUnderWriteGuard(cached) == cached

\* let mut write_guard = API_MODELS_CACHE.write().await, and the second look
WriteLock(r) ==
    /\ Running(r)
    /\ list_request[r].pc = "write"
    /\ write_guard = 0
    /\ IF CachedUnderWriteGuard(api_models_cache).some
       THEN /\ list_request' =
                  [list_request EXCEPT ![r].pc = "filter",
                                       ![r].api_models_data = api_models_cache.v]
            /\ UNCHANGED write_guard
       ELSE /\ list_request' = [list_request EXCEPT ![r].pc = "fetch"]
            /\ write_guard' = r
    /\ UNCHANGED <<api_models_cache, fetches>>
    /\ ModelsFrame

\* match get_models_from_api(&config).await, the write guard held: Ok fills
\* the cache, Err answers 500; the guard is dropped either way
Fetch(r) ==
    /\ Running(r)
    /\ list_request[r].pc = "fetch"
    /\ write_guard = r
    /\ \/ \E models \in UpstreamLists :
             /\ api_models_cache' = Some(LoweredList(models))
             /\ list_request' =
                   [list_request EXCEPT ![r].pc = "filter",
                                        ![r].api_models_data = LoweredList(models)]
             /\ fetches' = Append(fetches, "Ok")
       \/ /\ list_request' =
                [list_request EXCEPT ![r].pc = "done",
                                     ![r].response = [status |-> 500, data |-> <<>>]]
          /\ fetches' = Append(fetches, "Err")
          /\ UNCHANGED api_models_cache
    /\ write_guard' = 0
    /\ ModelsFrame

\* the loops over the upstream models and the custom models, and
\* res.render(Json(response))
Filter(r) ==
    /\ Running(r)
    /\ list_request[r].pc = "filter"
    /\ list_request' =
          [list_request EXCEPT
              ![r].pc = "done",
              ![r].response =
                  [status |-> 200,
                   data |-> processed_models_enabled(list_request[r].api_models_data,
                                                     list_request[r].yaml_config_map,
                                                     models_config.custom_models)]]
    /\ UNCHANGED <<api_models_cache, write_guard, fetches>>
    /\ ModelsFrame

ModelsNext ==
    \E r \in 1..NumListRequests :
        \/ GetConfig(r)
        \/ ReadCache(r)
        \/ WriteLock(r)
        \/ Fetch(r)
        \/ Filter(r)

SpecModelList == ModelListInit /\ [][ModelsNext]_vars

SpecModelsCache == ModelsCacheInit /\ [][ModelsNext]_vars

-----------------------------------------------------------------------------
(* Claims about the model list *)

\* Request r has answered with a list.
Listed(r) ==
    /\ Running(r)
    /\ list_request[r].pc = "done"
    /\ list_request[r].response.status = 200

\* The override of id has enable = false.
DisabledByOverride(map, id) == \E e \in map : e.name = id /\ e.enable = SomeBool(FALSE)

\* The id an upstream model is listed under: the lowercased mapping target of
\* its override, else its own id.
ListedAs(map, id) ==
    IF \E e \in map : e.name = id /\ e.mapping.some
    THEN to_lowercase((CHOOSE e \in map : e.name = id /\ e.mapping.some).mapping.v)
    ELSE id

\* The positions of the upstream models that are not disabled, and the place
\* the one at position i takes among them.
KeptPositions(data, map) == {i \in 1..Len(data) : ~DisabledByOverride(map, data[i])}
Rank(data, map, i) == Cardinality({j \in KeptPositions(data, map) : j <= i})

\* The custom ids in lower case, and where an id occurs first among them.
CustomIds(custom_models) ==
    IF custom_models.some THEN LoweredList(custom_models.v) ELSE <<>>
FirstAt(list, id) == CHOOSE i \in 1..Len(list) : list[i] = id /\ \A j \in 1..(i - 1) : list[j] # id

\* The list listed is the filtered list of the upstream list data under the
\* overrides map and the custom models customs: the upstream models that are
\* not disabled, in order, each under its mapping target or its id; then the
\* custom models that are not in the list and not disabled, each once, in order.
IsFilteredList(listed, data, map, customs, kept) ==
    /\ Len(listed) >= kept
    /\ \A i \in KeptPositions(data, map) : listed[Rank(data, map, i)] = ListedAs(map, data[i])
    /\ \A k \in (kept + 1)..Len(listed) :
          /\ listed[k] \in ListedIds(customs)
          /\ listed[k] \notin {listed[j] : j \in 1..(k - 1)}
          /\ ~DisabledByOverride(map, listed[k])
          /\ \A l \in (k + 1)..Len(listed) :
                listed[l] \in ListedIds(customs)
                => FirstAt(customs, listed[k]) < FirstAt(customs, listed[l])
    /\ \A j \in 1..Len(customs) :
          ~DisabledByOverride(map, customs[j]) => customs[j] \in ListedIds(listed)

\* C24: with YAML enabled, the list of the response is the upstream list with
\* the models whose override has enable = false left out, a model with a
\* mapping listed under the lowercased mapping target and any other under its
\* lowercased id, followed by every custom model that is not yet in the list
\* and not disabled by an override.
C24_FilteredModelList ==
    \A r \in 1..NumListRequests :
        Listed(r)
        => IsFilteredList(list_request[r].response.data,
                          list_request[r].api_models_data,
                          list_request[r].yaml_config_map,
                          CustomIds(models_config.custom_models),
                          Cardinality(KeptPositions(list_request[r].api_models_data,
                                                    list_request[r].yaml_config_map)))

\* A list in which one upstream model is left out as disabled, one is renamed
\* by its mapping, one custom model is skipped as already listed and one is
\* appended.
C24_Witness ==
    /\ Listed(1)
    /\ list_request[1].api_models_data = <<<<"a", "1">>, <<"b", "1">>>>
    /\ DisabledByOverride(list_request[1].yaml_config_map, <<"b", "1">>)
    /\ ListedAs(list_request[1].yaml_config_map, <<"a", "1">>) = <<"b", "1">>
    /\ models_config.custom_models = Some(<<<<"B", "1">>, <<"a", "1">>>>)
    /\ list_request[1].response.data = <<<<"b", "1">>, <<"a", "1">>>>

\* Request r holds an upstream list.
HoldsList(r) ==
    /\ Running(r)
    /\ \/ list_request[r].pc = "filter"
       \/ Listed(r)

\* C25: of the concurrent requests that find the cache empty, at most one
\* fetches the upstream list successfully and none fetches after that; every
\* request that holds a list holds the cached one, so all lists are built from
\* the same data.
C25_SingleFetch ==
    /\ \A i, j \in 1..Len(fetches) : i < j => fetches[i] # "Ok"
    /\ \A r \in 1..NumListRequests :
          HoldsList(r)
          => /\ api_models_cache.some
             /\ list_request[r].api_models_data = api_models_cache.v
    /\ \A r, q \in 1..NumListRequests :
          Listed(r) /\ Listed(q)
          => list_request[r].response.data = list_request[q].response.data

\* One request has fetched and answered while another, which found the cache
\* empty, waits for the write guard and will find the cache filled.
C25_Witness ==
    /\ fetches # <<>>
    /\ fetches[Len(fetches)] = "Ok"
    /\ \E r, q \in 1..NumListRequests :
          /\ Listed(r)
          /\ Running(q)
          /\ list_request[q].pc = "write"
          /\ api_models_cache.some

-----------------------------------------------------------------------------
(* evert.rs: the content, the replace buffer, the image latch, the tool calls *)

IsPrefix(a, b) == Len(a) <= Len(b) /\ SubSeq(b, 1, Len(a)) = a

\* The normal text the Text handler has returned, event by event, joined.
RECURSIVE NormalTextEmitted(_, _)
NormalTextEmitted(events, returned) ==
    IF events = <<>> THEN <<>>
    ELSE NormalTextEmitted(SubSeq(events, 1, Len(events) - 1),
                           SubSeq(returned, 1, Len(returned) - 1))
         \o (IF Last(events).type = "Text" /\ Last(returned).kind = "text"
             THEN Last(returned).text ELSE <<>>)

\* The handler call of this step left the old content as a prefix of the new.
ContentExtended == IsPrefix(ctx.content, ctx'.content)

\* After the handler call of this step content is the normal text emitted.
ContentIsEmitted == ctx'.content = NormalTextEmitted(fed', directives')

\* C27: after every event handler call the previous value of content is a
\* prefix of the new value, sequences with ReplaceResponse events included, and
\* content is the concatenation of the normal text emitted so far.
C27_ContentGrowsMonotonically ==
    [][ContentExtended /\ ContentIsEmitted]_vars

\* A ReplaceResponse has been observed whose text is not in content.
UnfoldedReplace ==
    \E i \in 1..Len(fed) :
        /\ fed[i].type = "ReplaceResponse"
        /\ ~Contains(ctx.content, fed[i].text)

\* C28: replace_buffer is set if and only if a ReplaceResponse has been
\* observed whose text has not yet been folded into content, so the text held
\* in replace_buffer is never in content at the same time.
C28_ReplaceBufferUnfolded ==
    /\ ctx.replace_buffer.some <=> UnfoldedReplace
    /\ ctx.replace_buffer.some => ~Contains(ctx.content, ctx.replace_buffer.v)

\* The handler call of this step was for a File, ReplaceResponse or Done event
\* and returned text, which from these handlers is placeholder-resolved
\* replace text.
EmitsResolvedText ==
    /\ Len(fed') = Len(fed) + 1
    /\ Last(fed').type \in {"File", "ReplaceResponse", "Done"}
    /\ Last(directives').kind = "text"

\* C29: once image_urls_sent is set it is never reset, and no later File,
\* ReplaceResponse or Done event of the request emits placeholder-resolved
\* replace text again.
C29_ImageUrlsSentOnce ==
    [][ctx.image_urls_sent
       => /\ ctx'.image_urls_sent
          /\ ~EmitsResolvedText]_vars

\* The tool calls of the Json events among events, in arrival order.
RECURSIVE ToolCallsOf(_)
ToolCallsOf(events) ==
    IF events = <<>> THEN <<>>
    ELSE (IF Head(events).type = "Json" THEN Head(events).calls ELSE <<>>)
         \o ToolCallsOf(Tail(events))

\* The frames written in this step.
FramesWritten == SubSeq(out', Len(out) + 1, Len(out'))

\* C30: every tool-call chunk of a streaming response carries all the tool
\* calls that have arrived so far in the request, in arrival order, and the
\* finish_reason "tool_calls".
C30_ToolChunkCarriesAll ==
    [][mode = "stream"
       => \A k \in 1..Len(FramesWritten) :
             FramesWritten[k].tool_calls.some
             => /\ FramesWritten[k].tool_calls.v = ToolCallsOf(upstream')
                /\ FramesWritten[k].finish_reason = "tool_calls"]_vars

-----------------------------------------------------------------------------
(* evert.rs: a thinking line that arrives in pieces *)

\* In thinking mode with a trailing thinking line that has no newline yet: the
\* line is in current_reasoning_line and, with its marker, all of pending_text.
HeldBack(c) ==
    /\ c.in_thinking_mode
    /\ c.current_reasoning_line # <<>>
    /\ c.pending_text = QuoteMark \o c.current_reasoning_line

\* This step is the Text handler's call for a Text event.
TextStep ==
    /\ Len(fed') = Len(fed) + 1
    /\ Last(fed').type = "Text"
    /\ Len(parsed') = Len(parsed) + 1

\* This step is a Text whose text ends the line that was held back.
CompletesHeldLine ==
    /\ HeldBack(ctx)
    /\ TextStep
    /\ Contains(Last(fed').text, <<NL>>)

\* The fragment held back before this step is in the buffer again after it,
\* though the text of this step does not end with it.
Reinjected ==
    /\ StartsWith(ctx'.pending_text, QuoteMark \o ctx.current_reasoning_line)
    /\ ~EndsWith(Last(fed').text, ctx.current_reasoning_line)

\* C31: a trailing thinking line without a newline is held back and not output
\* as reasoning; when a later Text completes it the line is output as
\* reasoning, and the fragment that was held back is not put into the buffer
\* again, so that it is output once.
C31_HeldLineOutputOnce ==
    [][/\ TextStep /\ HeldBack(ctx') /\ Last(parsed').reasoning.some
          => ~EndsWith(Last(parsed').reasoning.v, ctx'.current_reasoning_line)
       /\ CompletesHeldLine
          => /\ Last(parsed').reasoning.some
             /\ StartsWith(Last(parsed').reasoning.v, ctx.current_reasoning_line)
             /\ ~Reinjected]_vars

-----------------------------------------------------------------------------
(* poe_client.rs create_chat_request: the aggregated tool calls *)

\* The position in calls of the first call with this id.
FirstWithId(calls, id) ==
    CHOOSE i \in DOMAIN calls :
        /\ calls[i].id = id
        /\ \A j \in DOMAIN calls : calls[j].id = id => i <= j

\* list holds, for every id of calls, the first call of that id, and holds
\* them in the order of their first occurrence.
IsDistinctAggregate(list, calls) ==
    /\ \A i, j \in DOMAIN list : list[i].id = list[j].id => i = j
    /\ {list[i].id : i \in DOMAIN list} = ValidIds(calls)
    /\ \A i \in DOMAIN list : list[i] = calls[FirstWithId(calls, list[i].id)]
    /\ \A i, j \in DOMAIN list :
          i < j => FirstWithId(calls, list[i].id) < FirstWithId(calls, list[j].id)

\* C32: for every conversation that contains assistant tool_calls the
\* tool_calls of the upstream request is the list of the distinct tool calls of
\* the assistant messages: each id once, its first occurrence kept, in the
\* order of first occurrence.
C32_AggregatedToolCalls ==
    req_pc = "sent" /\ AssistantCalls(chat_request.messages) # <<>>
    => /\ chat_request_obj.tool_calls.some
       /\ IsDistinctAggregate(chat_request_obj.tool_calls.v,
                              AssistantCalls(chat_request.messages))

\* The function name of the call with this id in the aggregated tool_calls.
KeptName(calls, id) == calls[CHOOSE i \in DOMAIN calls : calls[i].id = id].name

\* C39: the name of each upstream tool result is the function name of the
\* tool call with the same id kept in the aggregated tool_calls, also when
\* several assistant tool calls have that id and different function names.
C39_ResultNameIsKeptName ==
    req_pc = "sent" /\ chat_request_obj.tool_results.some
                    /\ chat_request_obj.tool_calls.some
    => \A r \in DOMAIN chat_request_obj.tool_results.v :
          LET res == chat_request_obj.tool_results.v[r]
          IN res.tool_call_id \in ValidIds(chat_request_obj.tool_calls.v)
             => res.name = KeptName(chat_request_obj.tool_calls.v, res.tool_call_id)

-----------------------------------------------------------------------------
(* utils.rs process_message_images: a request dropped during the upload *)

\* C33: when the request task is cancelled while the batch upload of the
\* data-URI temp files is awaited, every temp file created for the request is
\* still removed.
C33_TempFilesRemovedOnCancel ==
    img_pc = "cancelled" => temp_dir.created \subseteq temp_dir.remove_tried

-----------------------------------------------------------------------------
(* evert.rs: the thinking sub-parser and the way the text is cut into events *)

\* the content outputs of process_text_chunk, concatenated
RECURSIVE ContentOutput(_)
ContentOutput(ps) ==
    IF ps = <<>> THEN <<>>
    ELSE (IF Head(ps).content.some THEN Head(ps).content.v ELSE <<>>)
         \o ContentOutput(Tail(ps))

\* The whole text has arrived, in Text events only.
WholeTextInTexts ==
    /\ docPos = Len(doc)
    /\ \A i \in DOMAIN fed : fed[i].type = "Text"

\* What the sub-parser gives when the whole text arrives in one Text event.
InOneText(text) == <<TextEventHandler(EventContext0, text).parse>>

\* C34: however the text is split into consecutive Text events, the reasoning
\* outputs concatenated and the content outputs concatenated are those of the
\* whole text arriving in one Text event.
C34_RechunkingInvariant ==
    WholeTextInTexts
    => /\ ReasoningOutput(parsed) = ReasoningOutput(InOneText(doc))
       /\ ContentOutput(parsed) = ContentOutput(InOneText(doc))

-----------------------------------------------------------------------------
(* chat.rs: the non-streaming handler as a function of the upstream, to set *)
(* beside what the streaming handler wrote for the same events              *)

\* The events the `for _ in 0..3` loop of handle_non_stream_response reads,
\* and those it keeps.
Peeked(events) == SubSeq(events, 1, IF Len(events) < PeekCount THEN Len(events) ELSE PeekCount)
AfterPeeked(events) == SubSeq(events, Len(Peeked(events)) + 1, Len(events))
Kept(events) == SelectSeq(events, LAMBDA e : e.type \notin {"Done", "StreamErr"})
HasDone(events) == \E i \in DOMAIN events : events[i].type = "Done"

NonStreamCompletion(content, calls, finish_reason) ==
    [result |-> "json", content |-> content, tool_calls |-> calls,
     finish_reason |-> finish_reason]
NonStreamError ==
    [result |-> "error", content |-> <<>>, tool_calls |-> <<>>, finish_reason |-> "null"]

\* `while let Some(Ok(event)) = event_stream.next().await` of the standard
\* branch, and the response built after it
RECURSIVE NonStreamRest(_, _, _, _)
NonStreamRest(events, content, refs, calls) ==
    IF events = <<>> \/ Head(events).type \in {"Done", "StreamErr"}
    THEN NonStreamCompletion(ReplaceRefs(content, refs), calls,
                             IF calls # <<>> THEN "tool_calls" ELSE "stop")
    ELSE IF Head(events).type = "Error" THEN NonStreamError
    ELSE NonStreamRest(Tail(events),
            IF Head(events).type = "Text" THEN content \o Head(events).text ELSE content,
            IF Head(events).type = "File" THEN refs \cup {Head(events).ref} ELSE refs,
            IF Head(events).type = "Json" THEN calls \o Head(events).calls ELSE calls)

\* handle_replace_response: the background task's loop and the final content
RECURSIVE ReplaceRest(_, _, _)
ReplaceRest(events, content, refs) ==
    IF events = <<>> \/ Head(events).type \in {"Done", "StreamErr"}
    THEN NonStreamCompletion(ReplaceRefs(content, refs), <<>>, "stop")
    ELSE ReplaceRest(Tail(events),
            CASE Head(events).type = "ReplaceResponse" -> Head(events).text
              [] Head(events).type = "Text" -> content \o Head(events).text
              [] OTHER -> content,
            IF Head(events).type = "File" THEN refs \cup {Head(events).ref} ELSE refs)

\* handle_non_stream_response once the first events are folded into st
NonStreamAfterFirst(events, st) ==
    IF st.error THEN NonStreamError
    ELSE IF st.replace_response
    THEN ReplaceRest(IF HasDone(Peeked(events)) THEN <<>> ELSE AfterPeeked(events),
                     ReplaceRefs(st.full_content, st.file_refs), st.file_refs)
    ELSE NonStreamRest(AfterPeeked(events),
                       ReplaceRefs(st.full_content, st.file_refs), st.file_refs,
                       st.tool_calls)

\* handle_non_stream_response for an upstream that yields events and then ends
NonStreamOf(events) ==
    NonStreamAfterFirst(events, NonStreamFirstEvents(Kept(Peeked(events)), FirstState0))

\* The non-streaming handler of the model answers as NonStreamOf says.
NonStreamIsNonStreamOf ==
    mode = "nonstream" /\ pc = "finished"
    => /\ result = NonStreamOf(upstream).result
       /\ result = "json"
          => /\ response.content = NonStreamOf(upstream).content
             /\ response.finish_reason = NonStreamOf(upstream).finish_reason
             /\ response.tool_calls = OptionOf(NonStreamOf(upstream).tool_calls)

\* The content deltas of the frames, concatenated.
RECURSIVE ContentDeltas(_)
ContentDeltas(frames) ==
    IF frames = <<>> THEN <<>>
    ELSE (IF Head(frames).content.some THEN Head(frames).content.v ELSE <<>>)
         \o ContentDeltas(Tail(frames))

\* The finish reasons the frames report.
FinishReasons(frames) ==
    {frames[i].finish_reason : i \in DOMAIN frames} \ {"null"}

\* C35: for the same upstream event sequence the content deltas of the
\* streaming response, concatenated, are the message content of the
\* non-streaming response, and both report the same finish_reason.
C35_StreamAgreesWithNonStream ==
    StreamOver /\ NonStreamOf(upstream).result = "json"
    => /\ ContentDeltas(out) = NonStreamOf(upstream).content
       /\ FinishReasons(out) = {NonStreamOf(upstream).finish_reason}

-----------------------------------------------------------------------------
(* evert.rs: the text left in the buffers when Done arrives *)

\* The characters of a text that are neither white space nor part of the
\* trigger or of a "> " marker.
Letters(text) == Chars(text) \ {SP, NL, ">", "*", "T"}

\* The text received in Text events so far.
TextReceived == SubSeq(doc, 1, docPos)

\* C36: when Done is handled every character received in Text events has been
\* output as content or as reasoning: nothing is left only in pending_text or
\* current_reasoning_line.
C36_NoTextLostAtDone ==
    ctx.done
    => Letters(TextReceived)
          \subseteq Chars(ReasoningOutput(parsed)) \cup Chars(ContentOutput(parsed))

-----------------------------------------------------------------------------
(* evert.rs: what becomes of the text of a ReplaceResponse *)

\* The position in fed of the last ReplaceResponse, 0 when there is none.
LastReplace ==
    IF \E i \in DOMAIN fed : fed[i].type = "ReplaceResponse"
    THEN CHOOSE i \in DOMAIN fed :
            /\ fed[i].type = "ReplaceResponse"
            /\ \A j \in DOMAIN fed : fed[j].type = "ReplaceResponse" => j <= i
    ELSE 0

\* The directive carries the text, as it came or with its image references
\* replaced by the URLs.
Carries(directive, text) ==
    /\ directive.kind = "text"
    /\ \/ Contains(directive.text, text)
       \/ Contains(directive.text, ReplaceRefs(text, RefIds))

\* C37: when the events hold a ReplaceResponse and end with Done, some emit
\* directive from the last ReplaceResponse to Done carries its text, also when
\* no Text and no matching File follows it.
C37_ReplaceTextDelivered ==
    ctx.done /\ LastReplace # 0
    => \E i \in LastReplace..Len(directives) :
          Carries(directives[i], fed[LastReplace].text)

-----------------------------------------------------------------------------
(* Claims about upstream Error events in a non-streaming response *)

\* the upstream sent an Error event and no Done before it
ErrorBeforeDone ==
    \E i \in ErrorEvents : \A j \in 1..(i - 1) : upstream[j].type # "Done"

\* C38: when handle_non_stream_response has finished and the upstream, free of
\* transport failures, sent an Error event before Done, the response is the
\* error response and never a 200 completion, also when a ReplaceResponse was
\* among the first events.
C38_NonStreamErrorIsError ==
    mode = "nonstream" /\ pc = "finished" /\ NoStreamErr /\ ErrorBeforeDone
    => result = "error"

-----------------------------------------------------------------------------
(* chat.rs: handle_replace_response returns, and what it returns *)

\* The scheduler runs the spawned collector and the task that waits for it.
SpecChatFair == SpecChat /\ WF_vars(ReplaceCollect) /\ WF_vars(ReplaceFinal)

\* The first events as the handler of the mode folds them.
FirstEventsFolded ==
    IF mode = "stream"
    THEN StreamFirstEvents(first_events, FirstState0)
    ELSE NonStreamFirstEvents(first_events, FirstState0)

\* The handler gave the rest of the stream to handle_replace_response.
ThroughReplace ==
    /\ pc \notin {"peek", "initial"}
    /\ ~FirstEventsFolded.error
    /\ FirstEventsFolded.replace_response
    /\ mode = "stream" => ~has_tool_calls

\* The events the collector read, up to the one that ended its loop.
Collected == IF has_done_event THEN <<>> ELSE AfterPeeked(upstream)

\* The content the client received.
ReturnedContent == IF mode = "stream" THEN ContentDeltas(out) ELSE response.content

\* handle_replace_response is waiting for its collector, or has been released.
InReplace == ThroughReplace /\ pc \in {"replace_collect", "replace_final"}

ReturnedReflectsCollected ==
    ThroughReplace /\ pc = "finished"
    => ReturnedContent =
         ReplaceRest(Collected,
                     ReplaceRefs(FirstEventsFolded.full_content,
                                 FirstEventsFolded.file_refs),
                     FirstEventsFolded.file_refs).content

\* C40: handle_replace_response always returns once the upstream terminates,
\* whether the collector sees Done, a stream error or the end of the stream
\* without Done, and the content it returns is the fold of every event the
\* collector read before that point.
C40_ReplaceResponseReturns ==
    /\ InReplace ~> pc = "finished"
    /\ []ReturnedReflectsCollected

\* The stream ended without Done and without error while the collector was
\* reading, after it had read a Text event, and the handler has returned.
C40_Witness ==
    /\ ThroughReplace /\ pc = "finished"
    /\ ~has_done_event /\ ~done_received /\ upEnded /\ NoStreamErr
    /\ \E i \in DOMAIN Collected : Collected[i].type = "Text"

====
